---- MODULE Spec2Model ----
(***************************************************************************)
(* A model of the truckbot chat pipeline: the per-session memory           *)
(* (history, vehicle profile, flags), the fitment gate of the /chat        *)
(* handler in its three flag-carrying variants, the bounded history and    *)
(* the affiliate link injector.                                            *)
(*                                                                         *)
(* Text is modelled as a sequence of tokens, each token a string: a word,  *)
(* a blank " ", a line break "\n", an asterisk "*", and the pieces of an   *)
(* anchor element.  A user message is a sequence of lower-case words that  *)
(* a single blank separates.                                               *)
(***************************************************************************)
EXTENDS Integers, Sequences, FiniteSets, TLC

VARIABLES
  impl,      \* which /chat handler is deployed: "server", "cooldown",
             \* "part003", "legacy"
  extractor, \* which extractIntent the handler imports: "recommend", "fields"
  SESSIONS,  \* the session Map: session id -> [history, vehicle, flags]
  now,       \* Date.now(), in ms
  nreq,      \* number of requests received so far
  pending,   \* requests suspended at the model call (await)
  res,       \* request id -> what the handler answered (res.json), with the
             \* profile and the flag the request found
  solo,      \* history variable: session id -> the session as the same turns
             \* leave it when the store holds no other session
  hist,      \* SpecHistory: the history under test
  appended,  \* SpecHistory: every turn pushed so far, in order
  replyText, \* SpecInject: the text handed to injectAffiliateLinks
  products,  \* SpecInject: the items handed to injectAffiliateLinks
  linked,    \* SpecInject: the result of the first run
  relinked,  \* SpecInject: the result of a second run over `linked`
  phase,     \* SpecInject: "input", "once", "twice"
  geo,       \* SpecGeo: the geo hints of a request, the configured default,
             \* and the country and marketplace resolved from them
  query      \* SpecItems: the inputs of buildQueryItems and its result

vars == <<impl, extractor, SESSIONS, now, nreq, pending, res, solo,
          hist, appended, replyText, products, linked, relinked, phase,
          geo, query>>

chatVars == <<impl, extractor, SESSIONS, now, nreq, pending, res, solo>>
histVars == <<hist, appended>>
injVars  == <<replyText, products, linked, relinked, phase>>
pureVars == <<geo, query>>

(***************************************************************************)
(* Bounds of the model.                                                    *)
(***************************************************************************)
MaxRequests == 2
MaxTicks    == 3
MaxAppends  == 20

(***************************************************************************)
(* Program constants.                                                      *)
(***************************************************************************)
MAX_TURNS    == 16
MAX_TURNS_P4 == 18
MAX_TURNS_V1 == 12
COOLDOWN_MS  == 120000
MaxPhraseTail == 6
SESSION_ID_LEN == 60

NULL == "null"

\* "server": src/server.js, second handler; "legacy": src/server.js, first
\* handler; "part003", "cooldown": the handlers of part_003 and part_004
Impls == {"server", "cooldown", "part003", "legacy"}

\* The clock starts well past the first cooldown window and advances in
\* steps of half a window.
T0     == 10 * COOLDOWN_MS
TickMs == COOLDOWN_MS \div 2

(***************************************************************************)
(* Generic helpers on sequences.                                           *)
(***************************************************************************)
Range(s) == {s[i] : i \in DOMAIN s}

MatchAt(pat, s, i) ==
  /\ i + Len(pat) - 1 <= Len(s)
  /\ \A k \in 1..Len(pat) : s[i + k - 1] = pat[k]

Occurs(pat, s) == \E i \in 1..Len(s) : MatchAt(pat, s, i)

SetMin(S) == CHOOSE x \in S : \A y \in S : x <= y

(***************************************************************************)
(* Vehicle profile.                                                        *)
(***************************************************************************)
Fields     == {"year", "make", "model", "bed", "trim", "engine"}
CoreFields == <<"year", "make", "model">>

EmptyVehicle == [f \in Fields |-> NULL]

\* from.year: undefined when the object has no such property
fieldOf(from, f) == IF f \in DOMAIN from THEN from[f] ELSE NULL

\* a faulty merge that keeps only what the new message names
mergeVehicleReplace(v, from) == [f \in Fields |-> fieldOf(from, f)]

\* from.year || v.year || null, field by field
mergeVehicleMemory(v, from) ==
  [f \in Fields |-> IF fieldOf(from, f) # NULL THEN fieldOf(from, f) ELSE v[f]]

\* a faulty missingFitment that lists the missing fields last to first
missingFitmentReversed(vehicle) ==
  SelectSeq(<<"model", "make", "year">>, LAMBDA f : vehicle[f] = NULL)

missingFitment(vehicle) ==
  SelectSeq(CoreFields, LAMBDA f : vehicle[f] = NULL)

\* a faulty fitmentKnown that also wants the bed length
fitmentKnownWithBed(vehicle) ==
  /\ vehicle["year"] # NULL /\ vehicle["make"] # NULL /\ vehicle["model"] # NULL
  /\ vehicle["bed"] # NULL

fitmentKnown(vehicle) ==
  vehicle["year"] # NULL /\ vehicle["make"] # NULL /\ vehicle["model"] # NULL

(***************************************************************************)
(* The turns a client can send.  `words` is the message text; `parsed` is  *)
(* what the imported extractor hands back for it (server.js reads the      *)
(* fields year, make, model, bed, trim, engine of that object and treats   *)
(* the extractor as a plug-in), NULL where it reports nothing.             *)
(***************************************************************************)
Partial(y, mk, md, b) ==
  [f \in Fields |-> CASE f = "year"  -> y
                      [] f = "make"  -> mk
                      [] f = "model" -> md
                      [] f = "bed"   -> b
                      [] OTHER       -> NULL]

Messages ==
  [ yes    |-> [words  |-> <<"yes">>,
                parsed |-> EmptyVehicle],
    buy    |-> [words  |-> <<"best", "brake", "pads", "for", "my", "truck">>,
                parsed |-> EmptyVehicle],
    info   |-> [words  |-> <<"why", "do", "brake", "rotors", "warp">>,
                parsed |-> EmptyVehicle],
    howto  |-> [words  |-> <<"how", "to", "check", "coolant">>,
                parsed |-> EmptyVehicle],
    tacoma |-> [words  |-> <<"2019", "toyota", "tacoma", "6", "ft", "bed">>,
                parsed |-> Partial("2019", "Toyota", "Tacoma", "6 ft")],
    f150   |-> [words  |-> <<"actually", "my", "new", "2022", "ford", "f-150">>,
                parsed |-> Partial("2022", "Ford", "F-150", NULL)],
    buy19  |-> [words  |-> <<"brake", "pads", "for", "2019">>,
                parsed |-> Partial("2019", NULL, NULL, NULL)],
    okbuy  |-> [words  |-> <<"ok", "best", "brake", "pads", "for", "2019">>,
                parsed |-> Partial("2019", NULL, NULL, NULL)],
    yesmm  |-> [words  |-> <<"yes", "toyota", "tacoma">>,
                parsed |-> Partial(NULL, "Toyota", "Tacoma", NULL)],
    xlt    |-> [words  |-> <<"2020", "Ford", "F150", "XLT", "5.5", "ft", "bed">>,
                parsed |-> [Partial("2020", "Ford", "F-150", "5.5 ft")
                              EXCEPT !["trim"] = "XLT"]] ]

MessageIds == DOMAIN Messages

(***************************************************************************)
(* Intent tests.  The regular expressions are word-bounded alternations,   *)
(* so on a sequence of words they test membership of a word (or of a run   *)
(* of words) in the alternation.                                           *)
(***************************************************************************)
YES_WORDS == {"yes", "yeah", "yup", "sure", "ok", "okay"}
YES_PAIRS == {<<"please", "do">>, <<"go", "ahead">>, <<"why", "not">>}

saidYes(s) ==
  \/ \E i \in DOMAIN s : s[i] \in YES_WORDS
  \/ \E p \in YES_PAIRS : Occurs(p, s)

\* part_004 also accepts "pls"
saidYesP4(s) == saidYes(s) \/ \E i \in DOMAIN s : s[i] = "pls"

CATEGORY_TERMS ==
  << <<"cold", "air", "intake">>, <<"air", "intake">>, <<"intake">>,
     <<"intake", "kit">>, <<"intake", "filter">>, <<"air", "filter">>,
     <<"tonneau", "cover">>, <<"bed", "cover">>, <<"retractable", "tonneau">>,
     <<"tri-fold", "tonneau">>, <<"hard", "folding", "cover">>,
     <<"soft", "roll-up", "cover">>,
     <<"lift", "kit">>, <<"leveling", "kit">>, <<"shocks">>, <<"struts">>,
     <<"coilovers">>, <<"springs">>,
     <<"brake", "pads">>, <<"rotors">>, <<"brakes">>,
     <<"running", "boards">>, <<"nerf", "bars">>, <<"side", "steps">>,
     <<"power", "steps">>, <<"rock", "sliders">>,
     <<"floor", "mats">>, <<"bed", "liner">>, <<"rack">>, <<"exhaust">>,
     <<"muffler">>, <<"cat-back">>, <<"header">>,
     <<"tuner">>, <<"programmer">>, <<"scanner">>,
     <<"headlights">>, <<"taillights">>, <<"light", "bar">>, <<"fog", "lights">>,
     <<"wheels">>, <<"tires">>, <<"all", "terrain">>, <<"mud", "terrain">> >>

\* The words of this model that are not all lower case, with what
\* toLowerCase makes of them; every other word is lower case already.
LowerOf ==
  [ Bilstein |-> "bilstein", Tonneau |-> "tonneau", Cover |-> "cover",
    BAKFlip |-> "bakflip", BAKFLIP |-> "bakflip", MX4 |-> "mx4",
    Rough |-> "rough", Country |-> "country", Retrax |-> "retrax",
    Extang |-> "extang", Best |-> "best", Ford |-> "ford", F150 |-> "f150",
    XLT |-> "xlt" ]

toLowerCase(w) == IF w \in DOMAIN LowerOf THEN LowerOf[w] ELSE w

lowerText(s) == [k \in DOMAIN s |-> toLowerCase(s[k])]

\* [...new Set(list)]: the entries in the order of their first occurrence
RECURSIVE distinct(_)
distinct(list) ==
  IF list = <<>> THEN <<>>
  ELSE LET front == distinct(SubSeq(list, 1, Len(list) - 1))
           x     == list[Len(list)]
       IN  IF x \in Range(front) THEN front ELSE Append(front, x)

\* CATEGORY_RE.exec in a loop over lower-case words: at each position the
\* first alternative that matches is taken and the scan resumes after it.
RECURSIVE categoryScan(_, _)
categoryScan(s, i) ==
  IF i > Len(s) THEN <<>>
  ELSE LET hits == {k \in DOMAIN CATEGORY_TERMS : MatchAt(CATEGORY_TERMS[k], s, i)}
       IN  IF hits = {} THEN categoryScan(s, i + 1)
           ELSE LET t == CATEGORY_TERMS[SetMin(hits)]
                IN  <<t>> \o categoryScan(s, i + Len(t))

\* the regex has the i flag and each match is lower-cased into a Set
detectCategories(s) == distinct(categoryScan(lowerText(s), 1))

\* [A-Z][A-Za-z0-9&\-]+ : the words of this model with a capital initial and
\* two characters or more
CapitalInitial ==
  {"Bilstein", "Tonneau", "Cover", "BAKFlip", "BAKFLIP", "MX4", "Rough",
   "Country", "Retrax", "Extang", "Best", "Ford", "F150", "XLT"}

\* [A-Z0-9][A-Za-z0-9&\-]+ : also the words that start with a digit
DigitInitial == {"5100", "2019", "2020", "2022"}

BRANDS ==
  << <<"SCT">>, <<"DiabloSport">>, <<"Bully", "Dog">>, <<"Edge">>,
     <<"Hypertech">>, <<"Superchips">>,
     <<"BAKFlip">>, <<"Retrax">>, <<"RetraxPRO">>, <<"UnderCover">>,
     <<"GatorTrax">>, <<"TruXedo">>, <<"Extang">>, <<"Roll-N-Lock">>,
     <<"Pace", "Edwards">>, <<"Leer">>,
     <<"Bilstein">>, <<"FOX">>, <<"Eibach">>, <<"ICON">>, <<"BDS">>,
     <<"Rough", "Country">>, <<"ReadyLIFT">>, <<"Rancho">>,
     <<"Power", "Stop">>, <<"Brembo">>, <<"EBC">>, <<"Hawk">>,
     <<"AMP", "Research">>, <<"Westin">>, <<"N-FAB">>, <<"Tyger", "Auto">>,
     <<"Ionic">>, <<"Go", "Rhino">> >>

\* new RegExp(`\\b${b}\\b`, "i").test(text) for each b of BRANDS, in the
\* order of BRANDS
detectBrands(s) ==
  SelectSeq(BRANDS, LAMBDA b : Occurs(lowerText(b), lowerText(s)))

\* NON_PRODUCT_PHRASES are tested as substrings of the lower-cased phrase; of
\* the words of this model only "best" holds one
HoldsNonProductPhrase == {"best"}

\* looksLikeVehicleOnly wants a make (MAKES) beside a year or a model name
MAKES ==
  {"ford", "chevrolet", "chevy", "gmc", "ram", "dodge", "toyota", "nissan",
   "jeep", "honda", "subaru"}

VehicleModelWords ==
  {"f150", "f-150", "silverado", "sierra", "tacoma", "tundra", "ranger",
   "gladiator", "maverick", "colorado", "frontier"}

YearWords == {"2019", "2020", "2022"}

looksLikeVehicleOnly(lc) ==
  /\ \E k \in DOMAIN lc : lc[k] \in MAKES
  /\ \E k \in DOMAIN lc : lc[k] \in YearWords \cup VehicleModelWords

PRODUCT_TOKENS ==
  {"series", "kit", "intake", "filter", "pads", "rotors", "brake", "cover",
   "shocks", "struts", "coilover", "springs", "tuner", "programmer",
   "exhaust", "muffler", "header", "cat-back", "nerf", "board", "boards",
   "steps", "step", "slider", "sliders", "mat", "mats", "liner", "rack",
   "headlight", "headlights", "taillight", "taillights", "tire", "tires",
   "wheel", "wheels", "bar", "light", "lights", "led", "winch", "hitch",
   "battery"}

PRODUCT_TOKEN_PHRASES ==
  { <<"cold", "air", "intake">>, <<"light", "bar">>, <<"bed", "liner">>,
    <<"floor", "mats">>, <<"cat-back">> }

\* /\b(?:[a-z]*\d+[a-z]+|[a-z]+[0-9]+)\b/i : the words of this model that mix
\* letters and digits
AlphaNumMix == {"mx4", "f150"}

isProductishPhrase(phrase) ==
  LET lc == lowerText(phrase)
  IN  IF \E k \in DOMAIN lc : lc[k] \in HoldsNonProductPhrase THEN FALSE
      ELSE IF looksLikeVehicleOnly(lc) THEN FALSE
      ELSE \/ \E k \in DOMAIN lc : lc[k] \in PRODUCT_TOKENS
           \/ \E t \in PRODUCT_TOKEN_PHRASES : Occurs(t, lc)
           \/ \E k \in DOMAIN lc : lc[k] \in AlphaNumMix

\* the end of the match of PROD_PHRASE_RE that starts at word i: up to six
\* more words, each with a capital or a digit first
RECURSIVE phraseEnd(_, _, _)
phraseEnd(s, j, more) ==
  IF more > 0 /\ j < Len(s) /\ s[j + 1] \in CapitalInitial \cup DigitInitial
    THEN phraseEnd(s, j + 1, more - 1)
  ELSE j

\* PROD_PHRASE_RE.exec in a loop from word i on
RECURSIVE phraseScan(_, _)
phraseScan(s, i) ==
  IF i > Len(s) THEN <<>>
  ELSE IF s[i] \notin CapitalInitial THEN phraseScan(s, i + 1)
  ELSE LET j   == phraseEnd(s, i, MaxPhraseTail)
           raw == SubSeq(s, i, j)
           rest == phraseScan(s, j + 1)
       IN  IF isProductishPhrase(raw) \/ raw \in Range(BRANDS)
             THEN <<raw>> \o rest
           ELSE rest

harvestProductPhrases(s) == distinct(phraseScan(s, 1))

SHOPPING_WORDS ==
  {"cover", "intake", "kit", "pad", "pads", "rotor", "rotors", "brake",
   "shock", "shocks", "strut", "struts", "tire", "wheel", "nerf", "running",
   "step", "winch", "tuner", "mat", "liner", "rack", "headlight", "taillight",
   "exhaust", "filter"}

isShoppingIntent(s) ==
  IF s = <<>> THEN FALSE
  ELSE \/ detectCategories(s) # <<>>
       \/ harvestProductPhrases(s) # <<>>
       \/ \E i \in DOMAIN s : toLowerCase(s[i]) \in SHOPPING_WORDS

\* PRODUCT_TERMS of part_003 / part_004 is not word-bounded: a word matches
\* when a term is a substring of it.  The words of this model that hold a
\* term ("brake", "pad", "rotor") are listed; the two-word terms (bed\s*cover,
\* lift\s*kit, ...) need their second word, which no message here has.
HoldsProductTerm == {"brake", "brakes", "pad", "pads", "rotor", "rotors"}

BRAND_WHITELIST_WORDS ==
  {"powerstep", "bakflip", "undercover", "truxedo", "extang", "retrax", "gator",
   "bilstein", "diablosport", "hypertech", "motorcraft", "weathertech", "tyger",
   "nitto", "bfgoodrich", "falken", "borla", "flowmaster", "armorflex", "mx4",
   "husky", "fox", "rancho", "monroe", "moog", "acdelco", "dorman", "bosch",
   "ngk", "mopar", "n-fab", "nfab", "westin", "ionic", "luverne", "aries"}

isProductLike(s) ==
  IF s = <<>> THEN FALSE
  ELSE \/ \E i \in DOMAIN s : s[i] \in HoldsProductTerm
       \/ \E i \in DOMAIN s : s[i] \in BRAND_WHITELIST_WORDS

\* HOWTO_KEYWORDS are substrings of the lower-cased text; of the words of
\* this model only the run "how to" holds one.
looksLikeHowTo(s) == Occurs(<<"how", "to">>, s)

\* The wantsProducts regex of the first handler of server.js is not
\* word-bounded either; these are the words of the model that hold one of
\* its alternatives (brake, pad, rotor).
HoldsLegacyTerm == {"brake", "brakes", "pad", "pads", "rotor", "rotors"}

wantsProductsLegacy(s) == \E i \in DOMAIN s : s[i] \in HoldsLegacyTerm

\* the buying-intent test and the affirmation test each handler applies
wantsProductsOf(i, s) ==
  CASE i = "server" -> isShoppingIntent(s)
    [] i = "legacy" -> wantsProductsLegacy(s)
    [] OTHER        -> isProductLike(s)

saidYesOf(i, s) ==
  CASE i = "cooldown" -> saidYesP4(s)
    [] i = "legacy"   -> FALSE
    [] OTHER          -> saidYes(s)

(***************************************************************************)
(* extractIntent.  The module the repository ships answers with the keys   *)
(* vehicle, type and brand; the handlers read year, make, model, bed, trim *)
(* and engine of whatever extractIntent returns, so with that module each  *)
(* of the six reads is undefined.  "fields" stands for an extractor that   *)
(* answers with the keys the handlers read (Messages[m].parsed).           *)
(***************************************************************************)
Extractors == {"recommend", "fields"}

VEHICLES ==
  << <<"f150">>, <<"super", "duty">>, <<"maverick">>, <<"ram", "1500">>,
     <<"ram", "2500">>, <<"ram", "3500">>, <<"silverado", "1500">>,
     <<"sierra", "1500">>, <<"tacoma">>, <<"tundra">>, <<"gladiator">>,
     <<"colorado">>, <<"ranger">> >>

TYPES ==
  << <<"tonneau", "cover">>, <<"wheels">>, <<"tires">>, <<"lift", "kit">>,
     <<"shocks/struts">>, <<"cold", "air", "intake">>, <<"exhaust">>,
     <<"tuner/programmer">>, <<"brakes">>, <<"lighting">>, <<"floor", "mats">>,
     <<"running", "boards/steps">>, <<"bed", "accessories">> >>

KNOWN_BRANDS ==
  << <<"bak">>, <<"undercover">>, <<"retrax">>, <<"truxedo">>, <<"extang">>,
     <<"gatortrax">>, <<"tonnopro">>, <<"bestop">>, <<"leer">>, <<"tyger">>,
     <<"rough", "country">>, <<"bilstein">>, <<"fox">>, <<"icon">>,
     <<"method">>, <<"fuel">>, <<"go", "rhino">>, <<"amp", "research">>,
     <<"weathertech">>, <<"husky">>, <<"airaid">>, <<"k&n">>, <<"mbrp">>,
     <<"borla">>, <<"magnaflow">>, <<"powerstop">> >>

\* LIST.find(x => q.includes(x)): the first entry of the list found in s
firstFound(list, s) ==
  LET hits == {k \in DOMAIN list : Occurs(list[k], s)}
  IN  IF hits = {} THEN <<>> ELSE list[SetMin(hits)]

extractIntentRecommend(text) ==
  LET s == lowerText(text)    \* const q = lc(query)
  IN  [vehicle |-> firstFound(VEHICLES, s),
       type    |-> IF firstFound(TYPES, s) # <<>> THEN firstFound(TYPES, s)
                   ELSE IF Occurs(<<"bed", "cover">>, s) \/ Occurs(<<"tonneau">>, s)
                     THEN <<"tonneau", "cover">>
                   ELSE <<>>,
       brand   |-> firstFound(KNOWN_BRANDS, s)]

\* const parsed = extractIntent(message), for each extractor and message
extractIntent ==
  [x \in Extractors |-> [m \in MessageIds |->
     IF x = "recommend" THEN extractIntentRecommend(Messages[m].words)
     ELSE Messages[m].parsed]]

(***************************************************************************)
(* Session store.                                                          *)
(***************************************************************************)
NewSession ==
  [history |-> <<>>,
   vehicle |-> EmptyVehicle,
   flags   |-> [askedFitmentOnce        |-> FALSE,
                offeredUpsellAfterHowTo |-> FALSE,
                lastFitmentAskAt        |-> 0]]

\* a faulty getSession that hands a new session the object of an existing one
getSessionShared(M, sessionId) ==
  IF sessionId \in DOMAIN M THEN M
  ELSE IF DOMAIN M = {} THEN M @@ (sessionId :> NewSession)
  ELSE M @@ (sessionId :> M[CHOOSE k \in DOMAIN M : TRUE])

\* SESSIONS after getSession(sessionId): created on first use
getSession(M, sessionId) ==
  IF sessionId \in DOMAIN M THEN M ELSE M @@ (sessionId :> NewSession)

\* (session || "visitor"): the requests of this model name no session
RawSessionIds == {NULL}
sessionKey(raw) == IF raw = NULL THEN "visitor" ELSE raw

Turn(role, kind, text, fields, upsell) ==
  [role |-> role, kind |-> kind, text |-> text, fields |-> fields, upsell |-> upsell]

UserTurn(m)      == Turn("user", "message", m, <<>>, FALSE)
AskYesTurn       == Turn("assistant", "ask_yes", "year, make, model", CoreFields, FALSE)
AskBuyTurn(miss) == Turn("assistant", "ask_buy", "missing", miss, FALSE)

\* a faulty pushHistory that drops the newest turns once the history is full
pushHistoryKeepOldest(h, turn, cap) ==
  LET h2 == Append(h, turn)
  IN  IF Len(h2) > cap THEN SubSeq(h2, 1, cap) ELSE h2

\* sess.history.push(turn); if (length > cap) splice(0, length - cap).
\* cap is the MAX_TURNS of the file the handler lives in.
pushHistory(h, turn, cap) ==
  LET h2 == Append(h, turn)
  IN  IF Len(h2) > cap THEN SubSeq(h2, Len(h2) - cap + 1, Len(h2)) ELSE h2

MaxTurnsOf(i) ==
  CASE i = "cooldown" -> MAX_TURNS_P4
    [] i = "legacy"   -> MAX_TURNS_V1
    [] OTHER          -> MAX_TURNS

(***************************************************************************)
(* The fitment gate of app.post("/chat"), per handler.  Given the session  *)
(* flags, the merged vehicle, the message and Date.now(), the outcome is   *)
(* "ask_yes", "ask_buy" or "proceed", with the flags it leaves behind.     *)
(***************************************************************************)
Outcome(kind, flags) == [kind |-> kind, flags |-> flags]

\* a faulty gate that asks the buying-intent question without marking the session
gateServerUnmarked(flags, vehicle, s, t) ==
  LET miss == missingFitment(vehicle)
  IN  IF ~flags.askedFitmentOnce /\ saidYes(s) /\ Len(miss) > 0
        THEN Outcome("ask_yes", [flags EXCEPT !.askedFitmentOnce = TRUE])
      ELSE IF ~flags.askedFitmentOnce /\ isShoppingIntent(s) /\ Len(miss) >= 2
        THEN Outcome("ask_buy", flags)
      ELSE Outcome("proceed", flags)

\* src/server.js, second handler: both questions sit under !askedFitmentOnce
gateServer(flags, vehicle, s, t) ==
  LET miss == missingFitment(vehicle)
  IN  IF ~flags.askedFitmentOnce /\ saidYes(s) /\ Len(miss) > 0
        THEN Outcome("ask_yes", [flags EXCEPT !.askedFitmentOnce = TRUE])
      ELSE IF ~flags.askedFitmentOnce /\ isShoppingIntent(s) /\ Len(miss) >= 2
        THEN Outcome("ask_buy", [flags EXCEPT !.askedFitmentOnce = TRUE])
      ELSE Outcome("proceed", flags)

\* a faulty gate of part_003 that asks as soon as one core field is missing
gatePart003AsksOnOne(flags, vehicle, s, t) ==
  LET miss == missingFitment(vehicle)
  IN  IF saidYes(s) /\ ~fitmentKnown(vehicle)
        THEN Outcome("ask_yes", flags)
      ELSE IF isProductLike(s) /\ Len(miss) >= 1 /\ ~flags.askedFitmentOnce
        THEN Outcome("ask_buy", [flags EXCEPT !.askedFitmentOnce = TRUE])
      ELSE Outcome("proceed", flags)

\* part_003: the affirmation question carries no flag
gatePart003(flags, vehicle, s, t) ==
  LET miss == missingFitment(vehicle)
  IN  IF saidYes(s) /\ ~fitmentKnown(vehicle)
        THEN Outcome("ask_yes", flags)
      ELSE IF isProductLike(s) /\ Len(miss) >= 2 /\ ~flags.askedFitmentOnce
        THEN Outcome("ask_buy", [flags EXCEPT !.askedFitmentOnce = TRUE])
      ELSE Outcome("proceed", flags)

\* a faulty gate of part_004 that asks the affirmation question whatever
\* time has passed since the last one
gateCooldownNoWindow(flags, vehicle, s, t) ==
  LET miss == missingFitment(vehicle)
  IN  IF saidYesP4(s) /\ ~fitmentKnown(vehicle)
        THEN Outcome("ask_yes", [flags EXCEPT !.lastFitmentAskAt = t])
      ELSE IF isProductLike(s) /\ Len(miss) >= 2 /\ ~flags.askedFitmentOnce
        THEN Outcome("ask_buy", [flags EXCEPT !.askedFitmentOnce = TRUE,
                                              !.lastFitmentAskAt = t])
      ELSE Outcome("proceed", flags)

\* part_004: the affirmation question is held back for COOLDOWN_MS
gateCooldown(flags, vehicle, s, t) ==
  LET miss == missingFitment(vehicle)
  IN  IF saidYesP4(s) /\ ~fitmentKnown(vehicle) /\ t - flags.lastFitmentAskAt > COOLDOWN_MS
        THEN Outcome("ask_yes", [flags EXCEPT !.lastFitmentAskAt = t])
      ELSE IF isProductLike(s) /\ Len(miss) >= 2 /\ ~flags.askedFitmentOnce
        THEN Outcome("ask_buy", [flags EXCEPT !.askedFitmentOnce = TRUE,
                                              !.lastFitmentAskAt = t])
      ELSE Outcome("proceed", flags)

\* src/server.js, first handler: no flag, no affirmation rule
gateLegacy(flags, vehicle, s, t) ==
  LET miss == missingFitment(vehicle)
  IN  IF wantsProductsLegacy(s) /\ Len(miss) >= 2
        THEN Outcome("ask_buy", flags)
      ELSE Outcome("proceed", flags)

gate(i, flags, vehicle, s, t) ==
  CASE i = "server"   -> gateServer(flags, vehicle, s, t)
    [] i = "legacy"   -> gateLegacy(flags, vehicle, s, t)
    [] i = "part003"  -> gatePart003(flags, vehicle, s, t)
    [] i = "cooldown" -> gateCooldown(flags, vehicle, s, t)

(***************************************************************************)
(* The message of a request body need not be a text.  Beside the texts of  *)
(* Messages a body can hold no message at all (undefined), the empty       *)
(* string, a number or an object.                                          *)
(***************************************************************************)
OtherBodies == {"missing", "empty", "number", "object"}

typeofMessage(m) ==
  CASE m = "missing" -> "undefined"
    [] m = "number"  -> "number"
    [] m = "object"  -> "object"
    [] OTHER         -> "string"

\* !message: undefined and "" are falsy; 42, {} and a non-empty string are not
falsyMessage(m) == m \in {"missing", "empty"}

\* if (!message || typeof message !== "string")
rejectedMessage(m) == falsyMessage(m) \/ typeofMessage(m) # "string"

\* the fixed reply to a request without a usable message
PromptTurn == Turn("assistant", "prompt", "tell me what you need", <<>>, FALSE)

\* a faulty handler that looks the session up before it validates the message
refusedAfterGetSession(M0, key) ==
  [store   |-> getSession(M0, key),
   kind    |-> "prompt",
   ask     |-> PromptTurn,
   before  |-> EmptyVehicle,
   vehicle |-> EmptyVehicle,
   asked   |-> FALSE]

\* return res.status(200).json({ reply: ... }) before anything else is done:
\* the store is left as it is, no profile and no flag is read
refused(M0, key) ==
  [store   |-> M0,
   kind    |-> "prompt",
   ask     |-> PromptTurn,
   before  |-> EmptyVehicle,
   vehicle |-> EmptyVehicle,
   asked   |-> FALSE]

(***************************************************************************)
(* app.post("/chat") up to its first return or its await, as a function of *)
(* the store: the store it leaves, the gate's outcome, the question if one *)
(* is asked, and the profile and flag the request found.                   *)
(***************************************************************************)
accepted(i, x, M0, key, m, t) ==
  LET M       == getSession(M0, key)
      sess    == M[key]
      words   == Messages[m].words
      h1      == pushHistory(sess.history, UserTurn(m), MaxTurnsOf(i))
      parsed  == extractIntent[x][m]
      vehicle == mergeVehicleMemory(sess.vehicle, parsed)
      out     == gate(i, sess.flags, vehicle, words, t)
      miss    == missingFitment(vehicle)
      ask     == IF out.kind = "ask_yes" THEN AskYesTurn ELSE AskBuyTurn(miss)
      h2      == IF out.kind = "proceed" THEN h1
                 ELSE pushHistory(h1, ask, MaxTurnsOf(i))
  IN  [store   |-> [M EXCEPT ![key] =
                      [history |-> h2, vehicle |-> vehicle, flags |-> out.flags]],
       kind    |-> out.kind,
       ask     |-> ask,
       before  |-> sess.vehicle,
       vehicle |-> vehicle,
       asked   |-> sess.flags.askedFitmentOnce]

received(i, x, M0, key, m, t) ==
  IF rejectedMessage(m) THEN refused(M0, key)
  ELSE accepted(i, x, M0, key, m, t)

(***************************************************************************)
(* app.post("/chat") after the model call has returned: format, offer the  *)
(* how-to upsell once, save.  The store it leaves and the reply.           *)
(***************************************************************************)
\* a faulty handler that saves the reply before the upsell line is added
\* to it
resumedSavesBeforeUpsell(i, M, sid, m) ==
  LET sess   == M[sid]
      words  == Messages[m].words
      upsell == /\ i \in {"server", "part003"}
                /\ looksLikeHowTo(words)
                /\ ~sess.flags.offeredUpsellAfterHowTo
      saved  == Turn("assistant", "answer", m, <<>>, FALSE)
      styled == Turn("assistant", "answer", m, <<>>, upsell)
      flags  == IF upsell
                  THEN [sess.flags EXCEPT !.offeredUpsellAfterHowTo = TRUE]
                  ELSE sess.flags
  IN  [store |-> [M EXCEPT ![sid] =
                    [history |-> pushHistory(sess.history, saved, MaxTurnsOf(i)),
                     vehicle |-> sess.vehicle,
                     flags   |-> flags]],
       reply |-> styled]

\* a faulty handler that puts the reply right behind the newest user turn
\* with its message, not at the end of the history
resumedAdjacent(i, M, sid, m) ==
  LET sess   == M[sid]
      h      == sess.history
      words  == Messages[m].words
      upsell == /\ i \in {"server", "part003"}
                /\ looksLikeHowTo(words)
                /\ ~sess.flags.offeredUpsellAfterHowTo
      styled == Turn("assistant", "answer", m, <<>>, upsell)
      own    == {k \in DOMAIN h : h[k] = UserTurn(m)} \cup {0}
      at     == CHOOSE k \in own : \A j \in own : j <= k
      flags  == IF upsell
                  THEN [sess.flags EXCEPT !.offeredUpsellAfterHowTo = TRUE]
                  ELSE sess.flags
  IN  [store |-> [M EXCEPT ![sid] =
                    [history |-> SubSeq(h, 1, at) \o <<styled>>
                                   \o SubSeq(h, at + 1, Len(h)),
                     vehicle |-> sess.vehicle,
                     flags   |-> flags]],
       reply |-> styled]

\* a faulty handler that offers the upsell without marking the session
resumedUpsellUnmarked(i, M, sid, m) ==
  LET sess   == M[sid]
      words  == Messages[m].words
      upsell == /\ i \in {"server", "part003"}
                /\ looksLikeHowTo(words)
                /\ ~sess.flags.offeredUpsellAfterHowTo
      styled == Turn("assistant", "answer", m, <<>>, upsell)
  IN  [store |-> [M EXCEPT ![sid] =
                    [history |-> pushHistory(sess.history, styled, MaxTurnsOf(i)),
                     vehicle |-> sess.vehicle,
                     flags   |-> sess.flags]],
       reply |-> styled]

resumed(i, M, sid, m) ==
  LET sess   == M[sid]
      words  == Messages[m].words
      upsell == /\ i \in {"server", "part003"}
                /\ looksLikeHowTo(words)
                /\ ~sess.flags.offeredUpsellAfterHowTo
      styled == Turn("assistant", "answer", m, <<>>, upsell)
      flags  == IF upsell
                  THEN [sess.flags EXCEPT !.offeredUpsellAfterHowTo = TRUE]
                  ELSE sess.flags
  IN  [store |-> [M EXCEPT ![sid] =
                    [history |-> pushHistory(sess.history, styled, MaxTurnsOf(i)),
                     vehicle |-> sess.vehicle,
                     flags   |-> flags]],
       reply |-> styled]

\* the store with every session but `key` taken out
Only(M, key) == [k \in DOMAIN M \cap {key} |-> M[k]]

\* M with the session `key` as it is in store N
WithSession(M, key, N) ==
  IF key \notin DOMAIN N THEN M
  ELSE [k \in DOMAIN M \cup {key} |-> IF k = key THEN N[key] ELSE M[k]]

\* a faulty handler that goes on to the model call after a question as well
reachesModelCallAlways(kind) == TRUE

\* every branch of the gate that asks, and the validation, end in
\* `return res...json(...)`: only the turn that falls through them reaches
\* `await client.chat.completions.create(...)`
reachesModelCall(kind) == kind = "proceed"

\* A request arrives with `session` in its body, which the handler turns
\* into the key `key` of the store
Arrive(session, key, m) ==
  /\ nreq < MaxRequests
  /\ LET id   == nreq + 1
         r    == received(impl, extractor, SESSIONS, key, m, now)
         own  == received(impl, extractor, Only(solo, key), key, m, now)
     IN  /\ nreq' = id
         /\ SESSIONS' = r.store
         /\ solo' = WithSession(solo, key, own.store)
         /\ IF reachesModelCall(r.kind)
              THEN /\ pending' = pending \cup
                                   {[id |-> id, session |-> session,
                                     sid |-> key, msg |-> m,
                                     before |-> r.before, vehicle |-> r.vehicle,
                                     asked |-> r.asked]}
                   /\ res' = res
              ELSE /\ pending' = pending
                   /\ res' = res @@ (id :> [session |-> session,
                                            sid |-> key, msg |-> m,
                                            reply |-> r.ask,
                                            before |-> r.before, vehicle |-> r.vehicle,
                                            asked |-> r.asked])
  /\ UNCHANGED <<impl, extractor, now>>
  /\ UNCHANGED histVars
  /\ UNCHANGED injVars
  /\ UNCHANGED pureVars

\* a request of the specifications whose session identifiers are short
ChatArrive(raw, m) == Arrive(raw, sessionKey(raw), m)

\* The model call returns
ModelResolve(p) ==
  /\ p \in pending
  /\ LET r   == resumed(impl, SESSIONS, p.sid, p.msg)
         own == resumed(impl, Only(solo, p.sid), p.sid, p.msg)
     IN  /\ SESSIONS' = r.store
         /\ solo' = WithSession(solo, p.sid, own.store)
         /\ res' = res @@ (p.id :> [session |-> p.session,
                                    sid |-> p.sid, msg |-> p.msg,
                                    reply |-> r.reply,
                                    before |-> p.before, vehicle |-> p.vehicle,
                                    asked |-> p.asked])
  /\ pending' = pending \ {p}
  /\ UNCHANGED <<impl, extractor, now, nreq>>
  /\ UNCHANGED histVars
  /\ UNCHANGED injVars
  /\ UNCHANGED pureVars

\* the fixed reply of the catch block; in each handler its text asks for
\* the truck's year, make and model
FallbackTurn == Turn("assistant", "fallback", "year, make, model", CoreFields, FALSE)

\* a faulty catch block that logs the error and throws it again
catchRethrows(i) == [sent |-> FALSE, reply |-> FallbackTurn]

\* catch (e) { console.error(...); return res.status(200).json({ reply }) }
catchError(i) == [sent |-> TRUE, reply |-> FallbackTurn]

\* a faulty handler whose catch block takes the newest turn of the session
\* out of the history again
ModelRejectRollsBack(p) ==
  /\ p \in pending
  /\ LET h == SESSIONS[p.sid].history
     IN  SESSIONS' = [SESSIONS EXCEPT ![p.sid].history = SubSeq(h, 1, Len(h) - 1)]
  /\ res' = res @@ (p.id :> [session |-> p.session,
                             sid |-> p.sid, msg |-> p.msg,
                             reply |-> FallbackTurn,
                             before |-> p.before, vehicle |-> p.vehicle,
                             asked |-> p.asked])
  /\ pending' = pending \ {p}
  /\ UNCHANGED <<impl, extractor, now, nreq, solo>>
  /\ UNCHANGED histVars
  /\ UNCHANGED injVars
  /\ UNCHANGED pureVars

\* The model call throws or rejects: control passes to the catch block
ModelReject(p) ==
  /\ p \in pending
  /\ LET c == catchError(impl)
     IN  res' = IF c.sent
                  THEN res @@ (p.id :> [session |-> p.session,
                                        sid |-> p.sid, msg |-> p.msg,
                                        reply |-> c.reply,
                                        before |-> p.before, vehicle |-> p.vehicle,
                                        asked |-> p.asked])
                  ELSE res
  /\ pending' = pending \ {p}
  /\ UNCHANGED <<impl, extractor, SESSIONS, now, nreq, solo>>
  /\ UNCHANGED histVars
  /\ UNCHANGED injVars
  /\ UNCHANGED pureVars

\* Time passes.  Only part_004 reads Date.now().
Tick ==
  /\ impl = "cooldown"
  /\ now < T0 + MaxTicks * TickMs
  /\ now' = now + TickMs
  /\ UNCHANGED <<impl, extractor, SESSIONS, nreq, pending, res, solo>>
  /\ UNCHANGED histVars
  /\ UNCHANGED injVars
  /\ UNCHANGED pureVars

IdleHist == hist = <<>> /\ appended = <<>>
IdleInj  == /\ replyText = <<>> /\ products = <<>>
            /\ linked = <<>> /\ relinked = <<>> /\ phase = "idle"
IdlePure == geo = <<>> /\ query = <<>>
IdleChat == /\ extractor = "recommend" /\ SESSIONS = <<>> /\ now = T0 /\ nreq = 0
            /\ pending = {} /\ res = <<>> /\ solo = <<>>

Init ==
  /\ impl \in Impls
  /\ extractor \in Extractors
  /\ SESSIONS = <<>>
  /\ now = T0
  /\ nreq = 0
  /\ pending = {}
  /\ res = <<>>
  /\ solo = <<>>
  /\ IdleHist
  /\ IdleInj
  /\ IdlePure

Next ==
  \/ \E raw \in RawSessionIds, m \in MessageIds : ChatArrive(raw, m)
  \/ \E p \in pending : ModelResolve(p)
  \/ \E p \in pending : ModelReject(p)
  \/ Tick

Spec == Init /\ [][Next]_vars

(***************************************************************************)
(* Two sessions side by side: the requests name no session (the "visitor"  *)
(* session) or the session "A", and arrive, suspend at the model call and  *)
(* resume in any order.                                                    *)
(***************************************************************************)
TwoSessions     == {NULL, "A"}
SessionMessages == {"yes", "buy", "howto", "tacoma"}

NextSessions ==
  \/ \E raw \in TwoSessions, m \in SessionMessages : ChatArrive(raw, m)
  \/ \E p \in pending : ModelResolve(p)
  \/ \E p \in pending : ModelReject(p)
  \/ Tick

SpecSessions == Init /\ [][NextSessions]_vars

(***************************************************************************)
(* Requests with and without a usable message, for two sessions.           *)
(***************************************************************************)
ValidateMessages == {"buy", "howto"}

NextValidate ==
  \/ \E raw \in TwoSessions, m \in ValidateMessages \cup OtherBodies :
       ChatArrive(raw, m)
  \/ \E p \in pending : ModelResolve(p)
  \/ \E p \in pending : ModelReject(p)
  \/ Tick

SpecValidate == Init /\ [][NextValidate]_vars

(***************************************************************************)
(* The bounded history on its own: a long run of pushHistory calls on one  *)
(* session of each handler.  A turn carries its role and, as content, its  *)
(* number in the order of the calls.  The roles follow the handlers: a     *)
(* user turn may come at any time, an assistant turn answers a user turn.  *)
(***************************************************************************)
HistTurn(role, n) == [role |-> role, content |-> n]

PushUser ==
  /\ Len(appended) < MaxAppends
  /\ LET turn == HistTurn("user", Len(appended) + 1)
     IN  /\ hist' = pushHistory(hist, turn, MaxTurnsOf(impl))
         /\ appended' = Append(appended, turn)
  /\ UNCHANGED chatVars
  /\ UNCHANGED injVars
  /\ UNCHANGED pureVars

PushAssistant ==
  /\ Len(appended) < MaxAppends
  /\ appended # <<>>
  /\ appended[Len(appended)].role = "user"
  /\ LET turn == HistTurn("assistant", Len(appended) + 1)
     IN  /\ hist' = pushHistory(hist, turn, MaxTurnsOf(impl))
         /\ appended' = Append(appended, turn)
  /\ UNCHANGED chatVars
  /\ UNCHANGED injVars
  /\ UNCHANGED pureVars

InitHistory ==
  /\ impl \in Impls
  /\ IdleChat
  /\ IdleHist
  /\ IdleInj
  /\ IdlePure

NextHistory ==
  \/ PushUser
  \/ PushAssistant

SpecHistory == InitHistory /\ [][NextHistory]_vars

(***************************************************************************)
(* Link injection.  A text is a sequence of tokens: words, the blank " ",  *)
(* the line break "\n", the asterisk "*", the placeholders __A0__, ... and *)
(* the pieces of an anchor element                                         *)
(*     "<a_"   <a href="https://www.amazon.../s?k=                         *)
(*     words joined by "+"   (the query, as URLSearchParams encodes it)    *)
(*     "_>"    " target="_blank" rel="nofollow sponsored noopener">        *)
(*     the link text                                                       *)
(*     "</a>"                                                              *)
(* Backticks, "#" headings and markdown images are not part of the token   *)
(* alphabet, so of the replacements of stripMarkdownBasic only the one for *)
(* asterisks can apply.                                                    *)
(***************************************************************************)
WhiteSpace    == {" ", "\n"}
PLACEHOLDERS  == <<"__A0__", "__A1__", "__A2__", "__A3__", "__A4__", "__A5__">>
NonWordTokens == WhiteSpace \cup {"*", "+", "<a_", "_>", "</a>"}

\* a token made of word characters (a placeholder is one: letters, digits, "_")
IsWordToken(t) == t \notin NonWordTokens

\* \b in front of the word at i, and behind the word at j
BoundaryBefore(s, i) == i = 1 \/ ~IsWordToken(s[i - 1])
BoundaryAfter(s, j)  == j = Len(s) \/ ~IsWordToken(s[j + 1])

RECURSIVE joinWith(_, _)
joinWith(ws, sep) ==
  IF Len(ws) <= 1 THEN ws
  ELSE <<ws[1], sep>> \o joinWith(Tail(ws), sep)

\* the first index >= i whose token is in S; 0 if there is none
RECURSIVE firstOf(_, _, _)
firstOf(s, i, S) ==
  IF i > Len(s) THEN 0
  ELSE IF s[i] \in S THEN i
  ELSE firstOf(s, i + 1, S)

\* the length of the run of asterisks (star) or of other tokens that starts at i
RECURSIVE runLen(_, _, _)
runLen(s, i, star) ==
  IF i > Len(s) \/ ((s[i] = "*") # star) THEN 0
  ELSE 1 + runLen(s, i + 1, star)

\* (\*{1,3})([^*]+)\1 tried at i: the number of asterisks of the group, 0 for
\* no match
emphasisAt(s, i) ==
  LET fits(g) == /\ runLen(s, i, TRUE) >= g
                 /\ runLen(s, i + g, FALSE) >= 1
                 /\ runLen(s, i + g + runLen(s, i + g, FALSE), TRUE) >= g
  IN  IF fits(3) THEN 3 ELSE IF fits(2) THEN 2 ELSE IF fits(1) THEN 1 ELSE 0

RECURSIVE stripEmphasis(_, _)
stripEmphasis(s, i) ==
  IF i > Len(s) THEN <<>>
  ELSE LET g == emphasisAt(s, i)
           r == runLen(s, i + g, FALSE)
       IN  IF g = 0 THEN <<s[i]>> \o stripEmphasis(s, i + 1)
           ELSE SubSeq(s, i + g, i + g + r - 1) \o stripEmphasis(s, i + g + r + g)

stripMarkdownBasic(s) == stripEmphasis(s, 1)

_STOP ==
  {"the", "a", "an", "for", "to", "of", "on", "with", "and", "or", "cover",
   "covers", "tonneau", "truck", "bed", "ford", "ram", "chevy", "gmc",
   "toyota", "best", "good", "great", "kit", "pads", "brakes"}

\* a product name is a sequence of lower-case words
_toks(name) == SelectSeq(name, LAMBDA t : t \notin _STOP)

MaxPatternTokens == 3

\* the tokens the ordered regex is built from; <<>> stands for null
buildOrderedTokenRegex(name) ==
  LET ts == _toks(name)
  IN  SubSeq(ts, 1, IF Len(ts) < MaxPatternTokens THEN Len(ts) ELSE MaxPatternTokens)

RECURSIVE skipSpace(_, _)
skipSpace(s, i) ==
  IF i <= Len(s) /\ s[i] \in WhiteSpace THEN skipSpace(s, i + 1) ELSE i

\* (t_k)\s+(t_k+1)... matched from s[i]: the index the match ends at, 0 for none
RECURSIVE tokenEnd(_, _, _, _)
tokenEnd(chosen, k, s, i) ==
  IF i > Len(s) \/ s[i] # chosen[k] THEN 0
  ELSE IF k = Len(chosen) THEN i
  ELSE LET j == skipSpace(s, i + 1)
       IN  IF j = i + 1 THEN 0 ELSE tokenEnd(chosen, k + 1, s, j)

\* tokenRe = \b(t1)\s+(t2)\s+(t3)\b at i: the end of the match, 0 for none
tokenMatch(chosen, s, i) ==
  LET e == tokenEnd(chosen, 1, s, i)
  IN  IF e # 0 /\ BoundaryBefore(s, i) /\ BoundaryAfter(s, e) THEN e ELSE 0

\* exactRe = \b(full name)\b at i: the end of the match, 0 for none
exactMatch(full, s, i) ==
  LET lit == joinWith(full, " ")
      e   == i + Len(lit) - 1
  IN  IF lit # <<>> /\ MatchAt(lit, s, i) /\ BoundaryBefore(s, i) /\ BoundaryAfter(s, e)
        THEN e ELSE 0

matchAt(kind, pat, s, i) ==
  IF kind = "token" THEN tokenMatch(pat, s, i) ELSE exactMatch(pat, s, i)

\* re.test(s)
test(kind, pat, s) == \E i \in 1..Len(s) : matchAt(kind, pat, s, i) # 0

\* <a href="${url}" target="_blank" rel="nofollow sponsored noopener">${m}</a>
anchor(url, m) == <<"<a_">> \o url \o <<"_>">> \o m \o <<"</a>">>

\* s.replace(re, anchor) with the g flag, from position i on
RECURSIVE replaceAll(_, _, _, _, _)
replaceAll(kind, pat, url, s, i) ==
  IF i > Len(s) THEN <<>>
  ELSE LET e == matchAt(kind, pat, s, i)
       IN  IF e = 0 THEN <<s[i]>> \o replaceAll(kind, pat, url, s, i + 1)
           ELSE anchor(url, SubSeq(s, i, e)) \o replaceAll(kind, pat, url, s, e + 1)

\* the tokens that hold a ">"
GtTokens == {"_>", "</a>"}

\* /<a\b[^>]*>.*?<\/a>/ tried at i: the index of the closing tag, 0 for no
\* match.  [^>]* runs to the first ">"; .*? stops at the first "</a>" and
\* cannot cross a line break.
anchorEnd(s, i) ==
  IF s[i] # "<a_" THEN 0
  ELSE LET j == firstOf(s, i + 1, GtTokens)
       IN  IF j = 0 THEN 0
           ELSE LET k == firstOf(s, j + 1, {"</a>", "\n"})
                IN  IF k # 0 /\ s[k] = "</a>" THEN k ELSE 0

\* protectAnchors from position i on, n anchors pushed so far
RECURSIVE protectFrom(_, _, _)
protectFrom(s, i, n) ==
  IF i > Len(s) THEN [out |-> <<>>, anchors |-> <<>>]
  ELSE LET k == anchorEnd(s, i)
       IN  IF k = 0
             THEN LET r == protectFrom(s, i + 1, n)
                  IN  [out |-> <<s[i]>> \o r.out, anchors |-> r.anchors]
             ELSE LET r == protectFrom(s, k + 1, n + 1)
                  IN  [out     |-> <<PLACEHOLDERS[n + 1]>> \o r.out,
                       anchors |-> <<SubSeq(s, i, k)>> \o r.anchors]

protectAnchors(text) == protectFrom(text, 1, 0)

\* text.replace(/__A(\d+)__/g, (_, i) => anchors[+i]); an index past the end
\* of anchors gives undefined, which replace writes as "undefined"
RECURSIVE restoreAnchors(_, _)
restoreAnchors(text, anchors) ==
  IF text = <<>> THEN <<>>
  ELSE LET t    == Head(text)
           hits == {k \in DOMAIN PLACEHOLDERS : PLACEHOLDERS[k] = t}
           n    == CHOOSE k \in hits : TRUE
       IN  (IF hits = {} THEN <<t>>
            ELSE IF n <= Len(anchors) THEN anchors[n]
            ELSE <<"undefined">>)
             \o restoreAnchors(Tail(text), anchors)

\* only the injector of the second half of server.js protects anchors
protects(i) == i = "server"

\* one turn of the loop over products
injectOne(i, out, p) ==
  LET prot    == IF protects(i) THEN protectAnchors(out)
                 ELSE [out |-> out, anchors |-> <<>>]
      noA     == prot.out
      tokenRe == buildOrderedTokenRegex(p.name)
      done    == IF tokenRe # <<>> /\ test("token", tokenRe, noA)
                   THEN replaceAll("token", tokenRe, p.url, noA, 1)
                 ELSE IF test("exact", p.name, noA)
                   THEN replaceAll("exact", p.name, p.url, noA, 1)
                 ELSE noA
  IN  IF protects(i) THEN restoreAnchors(done, prot.anchors) ELSE done

RECURSIVE injectLoop(_, _, _)
injectLoop(i, out, ps) ==
  IF ps = <<>> THEN out
  ELSE injectLoop(i, injectOne(i, out, Head(ps)), Tail(ps))

injectAffiliateLinks(i, text, ps) ==
  IF text = <<>> \/ ps = <<>> THEN text
  ELSE injectLoop(i, stripMarkdownBasic(text), ps)

(***************************************************************************)
(* The injector on its own: a reply text and an item list are chosen, the  *)
(* injector runs over the text, then once more over its own result.        *)
(***************************************************************************)
Product(name) == [name |-> name, url |-> joinWith(name, "+")]

BakflipMx4   == Product(<<"bakflip", "mx4">>)
Mx4          == Product(<<"mx4">>)
TonneauCover == Product(<<"tonneau", "cover">>)

ItemLists ==
  { <<>>, <<BakflipMx4>>, <<Mx4>>, <<TonneauCover>>,
    <<BakflipMx4, Mx4>>, <<Mx4, BakflipMx4>>, <<TonneauCover, BakflipMx4>> }

\* an anchor of the input: a link to a search for "retrax"
InputAnchor(m) == anchor(<<"retrax">>, m)

Texts ==
  { <<>>,
    <<"rotate", " ", "tires">>,
    <<"the", " ", "bakflip", " ", "mx4", " ", "fits">>,
    <<"bakflip", "\n", "mx4">>,
    <<"*", "*", "bakflip", " ", "mx4", "*", "*", " ", "tonneau", " ", "cover">>,
    <<"mx4", " ", "or", " ", "mx4">>,
    <<"see", " ">> \o InputAnchor(<<"bakflip", " ", "mx4">>),
    <<"see", " ">> \o InputAnchor(<<"bakflip", "\n", "mx4">>),
    InputAnchor(<<"*", "mx4", "*">>) \o <<" ", "tonneau", " ", "cover">>,
    <<"part", " ", "__A0__", " ", "bakflip", " ", "mx4">>,
    <<"part", " ", "__A0__", " ">> \o InputAnchor(<<"retrax">>) \o <<" ", "mx4">> }

Inject ==
  /\ phase = "input"
  /\ linked' = injectAffiliateLinks(impl, replyText, products)
  /\ phase' = "once"
  /\ UNCHANGED <<replyText, products, relinked>>
  /\ UNCHANGED chatVars
  /\ UNCHANGED histVars
  /\ UNCHANGED pureVars

Reinject ==
  /\ phase = "once"
  /\ relinked' = injectAffiliateLinks(impl, linked, products)
  /\ phase' = "twice"
  /\ UNCHANGED <<replyText, products, linked>>
  /\ UNCHANGED chatVars
  /\ UNCHANGED histVars
  /\ UNCHANGED pureVars

InitInject ==
  /\ impl \in Impls
  /\ IdleChat
  /\ IdleHist
  /\ replyText \in Texts
  /\ products \in ItemLists
  /\ linked = <<>>
  /\ relinked = <<>>
  /\ phase = "input"
  /\ IdlePure

NextInject ==
  \/ Inject
  \/ Reinject

SpecInject == InitInject /\ [][NextInject]_vars

(***************************************************************************)
(* GEO: from the hints of a request to the Amazon marketplace.  A string   *)
(* is a sequence of characters here, because normalizeCountry trims,       *)
(* measures, cuts and upper-cases its argument.  undefined and null are    *)
(* the value None, which is no string: its one element is not a character. *)
(***************************************************************************)
None == <<NULL>>

LOWER == <<"a", "b", "c", "d", "e", "f", "g", "h", "i", "j", "k", "l", "m",
           "n", "o", "p", "q", "r", "s", "t", "u", "v", "w", "x", "y", "z">>
UPPER == <<"A", "B", "C", "D", "E", "F", "G", "H", "I", "J", "K", "L", "M",
           "N", "O", "P", "Q", "R", "S", "T", "U", "V", "W", "X", "Y", "Z">>
DIGITS == {"0", "1", "2", "3", "4", "5", "6", "7", "8", "9"}

\* \w and \s for the characters of this model
IsWordChar(c)  == c \in Range(LOWER) \cup Range(UPPER) \cup DIGITS \cup {"_"}
IsSpaceChar(c) == c \in {" ", "\t"}

toUpperChar(c) ==
  IF c \in Range(LOWER) THEN UPPER[CHOOSE k \in DOMAIN LOWER : LOWER[k] = c] ELSE c

toUpperCase(s) == [k \in DOMAIN s |-> toUpperChar(s[k])]

RECURSIVE trimStart(_)
trimStart(s) ==
  IF s # <<>> /\ IsSpaceChar(Head(s)) THEN trimStart(Tail(s)) ELSE s

RECURSIVE trimEnd(_)
trimEnd(s) ==
  IF s # <<>> /\ IsSpaceChar(s[Len(s)]) THEN trimEnd(SubSeq(s, 1, Len(s) - 1)) ELSE s

trim(s) == trimEnd(trimStart(s))

\* a || b for values that are None or strings: None and "" are falsy
OrElse(a, b) == IF a = None \/ a = <<>> THEN b ELSE a

\* s.split(",")[0]
firstTag(s) ==
  LET commas == {k \in DOMAIN s : s[k] = ","}
  IN  IF commas = {} THEN s ELSE SubSeq(s, 1, SetMin(commas) - 1)

normalizeCountry(c) ==
  IF c = None \/ c = <<>> THEN None
  ELSE LET s == trim(c)
           n == Len(s)
       IN  IF n = 2 THEN toUpperCase(s)
           ELSE IF /\ n >= 3
                   /\ s[n - 2] \in {"-", "_"}
                   /\ IsWordChar(s[n - 1])
                   /\ IsWordChar(s[n])
             THEN toUpperCase(SubSeq(s, n - 1, n))
           ELSE toUpperCase(SubSeq(s, 1, IF n < 2 THEN n ELSE 2))

\* a faulty detectCountryLimited that reads the Vercel header before Cloudflare's
detectCountryVercelFirst(h, explicit) ==
  LET d == normalizeCountry(explicit)
  IN  IF d # None /\ d # <<>> THEN d
      ELSE OrElse(normalizeCountry(h.vercel),
           OrElse(normalizeCountry(h.cf),
           OrElse(normalizeCountry(h.generic),
           OrElse(normalizeCountry(firstTag(OrElse(h.al, <<>>))), None))))

\* h: the headers cf-ipcountry, x-vercel-ip-country, x-country-code and
\* accept-language of the request
detectCountryLimited(h, explicit) ==
  LET d == normalizeCountry(explicit)
  IN  IF d # None /\ d # <<>> THEN d
      ELSE OrElse(normalizeCountry(h.cf),
           OrElse(normalizeCountry(h.vercel),
           OrElse(normalizeCountry(h.generic),
           OrElse(normalizeCountry(firstTag(OrElse(h.al, <<>>))), None))))

GB == <<"G", "B">>
UK == <<"U", "K">>
US == <<"U", "S">>
CA == <<"C", "A">>

\* a faulty table without the UK alias
COUNTRY_TO_TLD_NO_ALIAS == (US :> "com") @@ (GB :> "co.uk") @@ (CA :> "ca")

COUNTRY_TO_TLD_LIMITED ==
  (US :> "com") @@ (GB :> "co.uk") @@ (UK :> "co.uk") @@ (CA :> "ca")

\* env: process.env.AMAZON_MARKETPLACE, NULL when it is not set
resolveMarketplace(cc, env) ==
  IF cc # None /\ cc # <<>> /\ cc \in DOMAIN COUNTRY_TO_TLD_LIMITED
    THEN COUNTRY_TO_TLD_LIMITED[cc]
  ELSE IF env # NULL /\ env # "" THEN env
  ELSE "com"

(***************************************************************************)
(* The GEO lines of app.post("/chat") on their own: a request arrives with *)
(* its hints, the handler resolves the country and the marketplace.        *)
(***************************************************************************)
BodyCountries   == {None, GB, <<"f", "r">>, <<"e", "n", "_", "C", "A">>, <<" ">>}
CfValues        == {None, US, <<"X", "X">>}
VercelValues    == {None, GB}
GenericValues   == {None, <<"u", "k">>}
AcceptLanguages ==
  {None, <<"e", "n">>, <<"f", "r", "-", "C", "A">>,
   <<"e", "n", "-", "U", "S", ",", "e", "n", ";", "q", "=", "0", ".", "9">>}
BodyMarkets     == {NULL, "co.uk"}
EnvMarkets      == {NULL, "", "de"}

GeoRequests ==
  [country : BodyCountries, market : BodyMarkets, cf : CfValues,
   vercel : VercelValues, generic : GenericValues, al : AcceptLanguages,
   env : EnvMarkets]

\* const country = normalizeCountry(bodyCountry) || detectCountryLimited(req);
\* const marketplace = (bodyMarket || resolveMarketplace(country));
ResolveGeo ==
  /\ geo.phase = "request"
  /\ LET r       == geo.req
         country == OrElse(normalizeCountry(r.country), detectCountryLimited(r, None))
         tld     == resolveMarketplace(country, r.env)
     IN  geo' = [phase       |-> "resolved",
                 req         |-> r,
                 country     |-> country,
                 tld         |-> tld,
                 marketplace |-> IF r.market # NULL THEN r.market ELSE tld]
  /\ UNCHANGED query
  /\ UNCHANGED chatVars
  /\ UNCHANGED histVars
  /\ UNCHANGED injVars

InitGeo ==
  /\ impl \in {"server", "legacy"}
  /\ IdleChat
  /\ IdleHist
  /\ IdleInj
  /\ query = <<>>
  /\ \E r \in GeoRequests :
       geo = [phase |-> "request", req |-> r, country |-> None, tld |-> NULL,
              marketplace |-> NULL]

NextGeo == ResolveGeo

SpecGeo == InitGeo /\ [][NextGeo]_vars

(***************************************************************************)
(* buildQueryItems: the brands, product phrases and categories found in    *)
(* the user message and in the model's reply, as search items.  A display  *)
(* string and a query are sequences of words.                              *)
(***************************************************************************)
\* [v?.year, v?.make, v?.model].filter(Boolean).join(" ")
vehicleString(v) ==
  SelectSeq(<<v["year"], v["make"], v["model"]>>, LAMBDA x : x # NULL)

\* [veh, q].filter(Boolean).join(" ").trim()
buildVehicleAwareQuery(vehicle, q) == vehicleString(vehicle) \o q

NoItems == [items |-> <<>>, seen |-> {}, done |-> FALSE]

\* `brand:${b.toLowerCase()}`, `prod:${p.toLowerCase()}`, `cat:${c}`
itemKey(kind, x) == <<kind, IF kind = "cat" THEN x ELSE lowerText(x)>>

\* one of the three for loops of buildQueryItems; acc.done stands for the
\* return inside the loop
RECURSIVE pushItems(_, _, _, _, _, _)
pushItems(acc, list, kind, vehicle, primaryCat, max) ==
  IF acc.done \/ list = <<>> THEN acc
  ELSE LET x   == Head(list)
           key == itemKey(kind, x)
           q   == IF kind = "brand" /\ primaryCat # <<>> THEN x \o primaryCat ELSE x
           its == Append(acc.items,
                         [display |-> x,
                          query   |-> buildVehicleAwareQuery(vehicle, q),
                          kind    |-> kind])
       IN  IF key \in acc.seen
             THEN pushItems(acc, Tail(list), kind, vehicle, primaryCat, max)
           ELSE pushItems([items |-> its,
                           seen  |-> acc.seen \cup {key},
                           done  |-> Len(its) >= max],
                          Tail(list), kind, vehicle, primaryCat, max)

buildQueryItems(userMsg, modelReply, vehicle, max) ==
  LET cats       == distinct(detectCategories(userMsg) \o detectCategories(modelReply))
      primaryCat == IF cats = <<>> THEN <<>> ELSE cats[1]
      brands     == distinct(detectBrands(userMsg) \o detectBrands(modelReply))
      prods      == distinct(harvestProductPhrases(userMsg)
                               \o harvestProductPhrases(modelReply))
      afterBrand == pushItems(NoItems, brands, "brand", vehicle, primaryCat, max)
      afterProd  == pushItems(afterBrand, prods, "prod", vehicle, primaryCat, max)
      afterCat   == pushItems(afterProd, cats, "cat", vehicle, primaryCat, max)
  IN  afterCat.items

(***************************************************************************)
(* buildQueryItems on its own: a user message, a reply of the model, a     *)
(* profile and a limit are chosen, then the items are built.               *)
(***************************************************************************)
UserTexts ==
  { <<>>,
    <<"bilstein", "shocks">>,
    <<"Bilstein">>,
    <<"Tonneau", "Cover">>,
    <<"BAKFlip", "MX4", "tonneau", "cover">>,
    <<"Rough", "Country", "lift", "kit">> }

ReplyTexts ==
  { <<>>,
    <<"the", "Bilstein", "5100", "shocks">>,
    <<"BAKFLIP", "MX4">>,
    <<"Best", "Tonneau", "Cover">>,
    <<"Retrax", "Tonneau", "Cover", "and", "Extang", "Tonneau", "Cover">> }

ItemVehicles == {EmptyVehicle, Partial("2019", "Toyota", "Tacoma", NULL)}

\* the handler passes max: 8
ItemLimits == {1, 2, 8}

BuildItems ==
  /\ query.phase = "input"
  /\ query' = [query EXCEPT
                 !.phase = "built",
                 !.items = buildQueryItems(query.userMsg, query.modelReply,
                                           query.vehicle, query.max)]
  /\ UNCHANGED geo
  /\ UNCHANGED chatVars
  /\ UNCHANGED histVars
  /\ UNCHANGED injVars

InitItems ==
  /\ impl = "server"
  /\ IdleChat
  /\ IdleHist
  /\ IdleInj
  /\ geo = <<>>
  /\ \E u \in UserTexts, r \in ReplyTexts, v \in ItemVehicles, n \in ItemLimits :
       query = [phase |-> "input", userMsg |-> u, modelReply |-> r,
                vehicle |-> v, max |-> n, items |-> <<>>]

NextItems == BuildItems

SpecItems == InitItems /\ [][NextItems]_vars

(***************************************************************************)
(* Session identifiers as the caller sends them: texts of any length, or   *)
(* none.  The handler keys the store by the first SESSION_ID_LEN           *)
(* characters, and by "visitor" when the body holds no identifier.         *)
(***************************************************************************)
VISITOR == <<"v", "i", "s", "i", "t", "o", "r">>

\* s.slice(0, n)
slice(s, n) == SubSeq(s, 1, IF Len(s) < n THEN Len(s) ELSE n)

\* a faulty handler that keys the store by the whole identifier
sessionIdWhole(session) ==
  IF session = None \/ session = <<>> THEN VISITOR ELSE session

\* (session || "visitor").toString().slice(0, 60): undefined and "" are falsy
sessionId(session) ==
  slice(IF session = None \/ session = <<>> THEN VISITOR ELSE session,
        SESSION_ID_LEN)

Pad(n) == [k \in 1..n |-> "a"]

CallerSessions ==
  { None, <<>>, VISITOR,
    Pad(SESSION_ID_LEN) \o <<"x">>,
    Pad(SESSION_ID_LEN) \o <<"y">>,
    Pad(SESSION_ID_LEN - 1) \o <<"b", "z">> }

KeyMessages == {"buy", "howto"}

KeyedArrive(session, m) == Arrive(session, sessionId(session), m)

NextKeys ==
  \/ \E session \in CallerSessions, m \in KeyMessages : KeyedArrive(session, m)
  \/ \E p \in pending : ModelResolve(p)
  \/ \E p \in pending : ModelReject(p)

\* the second handler of src/server.js, which reads no clock
InitKeys == Init /\ impl = "server" /\ extractor = "recommend"

SpecKeys == InitKeys /\ [][NextKeys]_vars

(***************************************************************************)
(* Vocabulary of the properties, stated on the answers logged in `res` and *)
(* on the session store, without the handlers' own helpers.                *)
(***************************************************************************)
AskKinds == {"ask_yes", "ask_buy"}

Asks(sid) ==
  {id \in DOMAIN res : res[id].sid = sid /\ res[id].reply.kind \in AskKinds}

BuyAsks(sid) ==
  {id \in DOMAIN res : res[id].sid = sid /\ res[id].reply.kind = "ask_buy"}

SessionIds == {sessionKey(raw) : raw \in RawSessionIds}

TrioKnown(v) == v["year"] # NULL /\ v["make"] # NULL /\ v["model"] # NULL

NullCore(v) ==
  (IF v["year"] = NULL THEN <<"year">> ELSE <<>>)
    \o (IF v["make"] = NULL THEN <<"make">> ELSE <<>>)
    \o (IF v["model"] = NULL THEN <<"model">> ELSE <<>>)

WordsOf(id) == Messages[res[id].msg].words

\* the request found the flag unset and its merged profile lacks two core
\* fields or more, and its message shows buying intent
BuyingUnasked(id) ==
  /\ ~res[id].asked
  /\ Len(NullCore(res[id].vehicle)) >= 2
  /\ wantsProductsOf(impl, WordsOf(id))

\* the messages of this model that ask why or how, not which product
InformationalIds == {"info", "howto"}

\* a message names a core field the profile holds with another value
SignalsOtherVehicle(old, parsed) ==
  \E f \in Range(CoreFields) :
    old[f] # NULL /\ fieldOf(parsed, f) # NULL /\ fieldOf(parsed, f) # old[f]

(***************************************************************************)
(* C1.  A profile field that is non-null before a merge keeps its value    *)
(* after the merge, whatever the new partial profile carries.  The merge   *)
(* of the handlers lets the new value win, so this fails.                  *)
(***************************************************************************)
C1_FilledFieldKept ==
  [][\A sid \in DOMAIN SESSIONS : \A f \in Fields :
       SESSIONS[sid].vehicle[f] # NULL
         => SESSIONS'[sid].vehicle[f] = SESSIONS[sid].vehicle[f]]_vars

C3_NoAskOnceTrioKnown ==
  \A id \in DOMAIN res :
    (TrioKnown(res[id].before) \/ TrioKnown(res[id].vehicle))
      => res[id].reply.kind \notin AskKinds

\* an affirmation or a buying-intent message met a complete profile and was
\* answered by the model
C3_KnownTrioAnswered ==
  \E id \in DOMAIN res :
    /\ TrioKnown(res[id].before)
    /\ saidYesOf(impl, WordsOf(id)) \/ wantsProductsOf(impl, WordsOf(id))
    /\ res[id].reply.kind = "answer"

(***************************************************************************)
(* C4.  With fewer than two core fields known and no ask made, a message   *)
(* of informational or how-to intent is never answered with a fitment      *)
(* question, product terms or not.  The handlers test for product terms    *)
(* only, so "why do brake rotors warp" is gated and this fails.            *)
(***************************************************************************)
C4_InformationalProceeds ==
  \A id \in DOMAIN res :
    (/\ res[id].msg \in InformationalIds
     /\ ~res[id].asked
     /\ Len(NullCore(res[id].vehicle)) >= 2)
      => res[id].reply.kind \notin AskKinds

C6_VehicleChangeResets ==
  [][\A raw \in RawSessionIds, m \in MessageIds :
       LET key    == sessionKey(raw)
           parsed == extractIntent[extractor][m]
       IN  (/\ ChatArrive(raw, m)
            /\ key \in DOMAIN SESSIONS
            /\ SignalsOtherVehicle(SESSIONS[key].vehicle, parsed))
             => /\ \A f \in Fields : SESSIONS'[key].vehicle[f] = fieldOf(parsed, f)
                /\ SESSIONS'[key].flags.askedFitmentOnce => nreq' \in DOMAIN res']_vars

(***************************************************************************)
(* C7.  After any run of pushHistory calls the history holds at most       *)
(* MAX_TURNS turns and is the last min(n, MAX_TURNS) of the n turns        *)
(* appended, in the order of the calls.                                    *)
(***************************************************************************)
C7_HistoryIsLastTurns ==
  LET n    == Len(appended)
      cap  == MaxTurnsOf(impl)
      kept == IF n < cap THEN n ELSE cap
  IN  /\ Len(hist) <= cap
      /\ Len(hist) = kept
      /\ \A k \in 1..kept : hist[k] = appended[n - kept + k]

\* a history that has evicted more than one turn
C7_HistoryEvicted ==
  /\ Len(appended) >= MaxTurnsOf(impl) + 2
  /\ Len(hist) = MaxTurnsOf(impl)
  /\ hist[1].content = Len(appended) - MaxTurnsOf(impl) + 1

(***************************************************************************)
(* Vocabulary of the injector's properties.                                *)
(***************************************************************************)
\* the anchor elements of a text: from an opening tag to the next closing tag
AnchorsOf(s) ==
  {SubSeq(s, i, firstOf(s, i, {"</a>"})) :
     i \in {j \in DOMAIN s : s[j] = "<a_" /\ firstOf(s, j, {"</a>"}) # 0}}

\* an opening tag that comes before the previous anchor is closed, or inside
\* an opening tag
Nested(s) ==
  \E i, j \in DOMAIN s :
    /\ i < j
    /\ s[i] = "<a_"
    /\ s[j] = "<a_"
    /\ \A k \in (i + 1)..(j - 1) : s[k] # "</a>"

(***************************************************************************)
(* C8.  Injection is idempotent: a second run over the result of the first *)
(* run, with the same items, changes nothing.  An anchor the first run     *)
(* writes is matched again by the second run whenever it is not protected, *)
(* so this fails.                                                          *)
(***************************************************************************)
C8_InjectIdempotent ==
  phase = "twice" => relinked = linked

(***************************************************************************)
(* C9.  Every anchor element of the input is found verbatim in the output, *)
(* whatever items are injected.                                            *)
(***************************************************************************)
C9_InputAnchorsVerbatim ==
  phase # "input" => \A a \in AnchorsOf(replyText) : Occurs(a, linked)

(***************************************************************************)
(* C10.  When several items are injected in one call into a text without   *)
(* anchors, the output holds no anchor nested inside another anchor.       *)
(***************************************************************************)
C10_NoNestedAnchors ==
  (phase # "input" /\ Len(products) >= 2 /\ AnchorsOf(replyText) = {})
    => ~Nested(linked)

(***************************************************************************)
(* Vocabulary of the properties on turns that overlap.  Request ids follow *)
(* the order of arrival; a request is in flight while it is in `pending`.  *)
(***************************************************************************)
InFlightIds == {p.id : p \in pending}

\* the value of askedFitmentOnce the request found when it arrived
FoundAsked(id) ==
  IF id \in DOMAIN res THEN res[id].asked
  ELSE (CHOOSE p \in pending : p.id = id).asked

SidOf(id) ==
  IF id \in DOMAIN res THEN res[id].sid
  ELSE (CHOOSE p \in pending : p.id = id).sid

\* the questions that set askedFitmentOnce, per handler
MarkingAsks(i) ==
  CASE i = "server" -> {"ask_yes", "ask_buy"}
    [] i = "legacy" -> {}
    [] OTHER        -> {"ask_buy"}

\* two turns of one session both found the flag unset and both were
\* answered with a fitment question
BothReadFalseBothAsk ==
  \E a, b \in DOMAIN res :
    /\ a # b
    /\ res[a].sid = res[b].sid
    /\ ~res[a].asked /\ ~res[b].asked
    /\ res[a].reply.kind \in AskKinds /\ res[b].reply.kind \in AskKinds

(***************************************************************************)
(* C11.  As stated: two turns of one session can both read the flag as     *)
(* unset before either sets it, and both return the fitment question.  For *)
(* the second handler of server.js: on the empty store there are two       *)
(* messages whose turns, one after the other in one session, both find the *)
(* flag unset and both are answered with the question.  (A turn that is    *)
(* answered with the question is not suspended, so two such turns run one  *)
(* after the other.)                                                       *)
(***************************************************************************)
C11_BothTurnsCanAsk ==
  (impl = "server" /\ nreq = 0) =>
    \E raw \in RawSessionIds : \E m1, m2 \in MessageIds :
      LET key == sessionKey(raw)
          r1  == received(impl, extractor, SESSIONS, key, m1, now)
          r2  == received(impl, extractor, r1.store, key, m2, now)
      IN  /\ ~r1.asked /\ r1.kind \in AskKinds
          /\ ~r2.asked /\ r2.kind \in AskKinds

(***************************************************************************)
(* C11, amended.  The flag is read and set in one stretch of the handler   *)
(* without a suspension, so under every interleaving a turn that arrives   *)
(* after a question that sets the flag finds the flag set, also while      *)
(* earlier turns of the session are still in flight; in server.js no two   *)
(* turns that found the flag unset are both answered with a question.      *)
(***************************************************************************)
C11_LaterTurnsSeeFlag ==
  /\ \A a \in DOMAIN res : \A b \in DOMAIN res \cup InFlightIds :
       (/\ a < b
        /\ SidOf(b) = res[a].sid
        /\ res[a].reply.kind \in MarkingAsks(impl))
         => FoundAsked(b)
  /\ impl = "server" => ~BothReadFalseBothAsk

\* a turn is suspended at the model call, having found the flag unset, and a
\* later turn of the same session has been answered with the question
C11_AskedWhileTurnInFlight ==
  \E p \in pending : \E b \in DOMAIN res :
    /\ p.id < b
    /\ res[b].sid = p.sid
    /\ ~p.asked
    /\ ~res[b].asked
    /\ res[b].reply.kind \in MarkingAsks(impl)

(***************************************************************************)
(* C12.  Under every interleaving of the turns of two sessions, suspended  *)
(* turns included, each session's history, profile and flags are what the  *)
(* session's own turns leave when the store holds no other session.        *)
(***************************************************************************)
C12_SessionsIndependent ==
  /\ DOMAIN SESSIONS = DOMAIN solo
  /\ \A sid \in DOMAIN SESSIONS : SESSIONS[sid] = solo[sid]

\* a turn of one session arrived, was suspended and was answered while an
\* earlier turn of the other session was still in flight, and the two
\* sessions hold different profiles and flags
C12_OverlappedSessions ==
  \E p \in pending : \E b \in DOMAIN res :
    /\ p.id < b
    /\ res[b].sid # p.sid
    /\ res[b].reply.kind = "answer"
    /\ SESSIONS[p.sid].vehicle # SESSIONS[res[b].sid].vehicle
    /\ SESSIONS[p.sid].flags # SESSIONS[res[b].sid].flags

C15_AffirmationAskMarks ==
  impl # "legacy" =>
    /\ \A id \in DOMAIN res :
         (/\ id = 1
          /\ saidYes(WordsOf(id))
          /\ NullCore(res[id].vehicle) # <<>>)
           => /\ res[id].reply.kind = "ask_yes"
              /\ res[id].reply.fields = <<"year", "make", "model">>
    /\ \A a, b \in DOMAIN res :
         (/\ a < b
          /\ res[a].sid = res[b].sid
          /\ res[a].reply.kind = "ask_yes"
          /\ wantsProductsOf(impl, WordsOf(b)))
           => res[b].reply.kind \notin AskKinds

(***************************************************************************)
(* Vocabulary of the GEO properties.                                       *)
(***************************************************************************)
\* a hint that is not there: undefined, empty, or blanks only
Absent(v) == v = None \/ \A k \in DOMAIN v : v[k] \in {" ", "\t"}

\* the configured default marketplace
DefaultMarketplace(env) == IF env \in {NULL, ""} THEN "com" ELSE env

(***************************************************************************)
(* C16.  resolveMarketplace maps GB and UK to co.uk, US to com, CA to ca,  *)
(* and every other country code, and no country at all, to the configured  *)
(* default marketplace (AMAZON_MARKETPLACE, else com).                     *)
(***************************************************************************)
C16_MarketplaceOfCountry ==
  geo.phase = "resolved" =>
    /\ geo.country \in {<<"G", "B">>, <<"U", "K">>} => geo.tld = "co.uk"
    /\ geo.country = <<"U", "S">> => geo.tld = "com"
    /\ geo.country = <<"C", "A">> => geo.tld = "ca"
    /\ geo.country \notin {<<"G", "B">>, <<"U", "K">>, <<"U", "S">>, <<"C", "A">>}
         => geo.tld = DefaultMarketplace(geo.req.env)

\* the alias UK was resolved to co.uk although the configured default is
\* another marketplace
C16_AliasResolved ==
  /\ geo.phase = "resolved"
  /\ geo.country = <<"U", "K">>
  /\ geo.req.env = "de"
  /\ geo.tld = "co.uk"

(***************************************************************************)
(* C17.  The country of a turn comes from the first source that is there,  *)
(* in the order: country of the request body, cf-ipcountry,                *)
(* x-vercel-ip-country, x-country-code, first tag of Accept-Language; with *)
(* none of them the turn has no country and the marketplace is the         *)
(* configured default.  A source counts as absent when it is undefined,    *)
(* empty or blank.                                                         *)
(***************************************************************************)
C17_CountryPrecedence ==
  geo.phase = "resolved" =>
    LET r       == geo.req
        sources == <<r.country, r.cf, r.vercel, r.generic,
                     IF r.al = None THEN None ELSE firstTag(r.al)>>
        there   == {k \in DOMAIN sources : ~Absent(sources[k])}
    IN  IF there = {}
          THEN geo.country = None /\ geo.tld = DefaultMarketplace(r.env)
          ELSE geo.country = normalizeCountry(sources[SetMin(there)])

\* the body has no country and Cloudflare's header is absent: the Vercel
\* header decides, against x-country-code and Accept-Language
C17_VercelHeaderDecides ==
  /\ geo.phase = "resolved"
  /\ Absent(geo.req.country)
  /\ geo.req.cf = None
  /\ geo.req.vercel = <<"G", "B">>
  /\ geo.req.generic = <<"u", "k">>
  /\ geo.req.al = <<"f", "r", "-", "C", "A">>
  /\ geo.country = <<"G", "B">>

(***************************************************************************)
(* C18.  buildQueryItems returns at most max items, and no two of them     *)
(* have display strings that are equal when case is ignored, whichever     *)
(* detector and whichever text each came from.  The keys of the seen set   *)
(* carry the kind of the item, so a brand and a product phrase, or a       *)
(* product phrase and a category, with the same words both get in, and     *)
(* this fails.                                                             *)
(***************************************************************************)
C18_ItemsCappedAndDistinct ==
  query.phase = "built" =>
    /\ Len(query.items) <= query.max
    /\ \A a, b \in DOMAIN query.items :
         a # b => lowerText(query.items[a].display) # lowerText(query.items[b].display)

(***************************************************************************)
(* C19.  The gate is decided before the model is invoked and the model     *)
(* call is the only point where a turn is suspended.  A turn answered with *)
(* a fitment question is answered in the step in which it arrives: it was  *)
(* never in flight, no model call starts, and the history of its session   *)
(* ends with its user message followed by the question.  A turn goes in    *)
(* flight in the step in which it arrives, with the history ending in its  *)
(* user message, no question behind it.  An answer or the fallback comes   *)
(* only to a turn in flight, which then is in flight no more; every turn   *)
(* that has arrived is either answered or in flight, never both.           *)
(***************************************************************************)
LastTurns(h, n) == IF Len(h) < n THEN <<>> ELSE SubSeq(h, Len(h) - n + 1, Len(h))

ArrivesNow(id) == nreq' = nreq + 1 /\ id = nreq'

AskedTurnRunsToCompletion ==
  \A id \in DOMAIN res' \ DOMAIN res :
    res'[id].reply.kind \in AskKinds =>
      /\ ArrivesNow(id)
      /\ pending' = pending
      /\ LastTurns(SESSIONS'[res'[id].sid].history, 2)
           = <<UserTurn(res'[id].msg), res'[id].reply>>

ModelCalledAfterGate ==
  \A p \in pending' \ pending :
    /\ ArrivesNow(p.id)
    /\ p.id \notin DOMAIN res'
    /\ LastTurns(SESSIONS'[p.sid].history, 1) = <<UserTurn(p.msg)>>

AnswerEndsSuspension ==
  \A id \in DOMAIN res' \ DOMAIN res :
    res'[id].reply.kind \in {"answer", "fallback"} =>
      /\ id \in InFlightIds
      /\ pending' = {p \in pending : p.id # id}
      /\ nreq' = nreq

C19_GateBeforeModelCall ==
  /\ [](\A id \in 1..nreq : (id \in DOMAIN res) # (id \in InFlightIds))
  /\ [][/\ AskedTurnRunsToCompletion
        /\ ModelCalledAfterGate
        /\ AnswerEndsSuspension]_vars

\* a turn was answered with a question, and a later turn of the session is
\* suspended at the model call
C19_AskedThenModelCalled ==
  \E a \in DOMAIN res : \E p \in pending :
    /\ res[a].reply.kind \in AskKinds
    /\ a < p.id
    /\ p.sid = res[a].sid

(***************************************************************************)
(* C20.  The extractor's output carries the fields year, make, model, bed, *)
(* trim and engine that the merge reads: a turn whose message names a      *)
(* year, a make and a model leaves the three core fields of the session    *)
(* profile non-null, and "2020 Ford F150 XLT 5.5 ft bed" merged into an    *)
(* empty session gives year 2020, make Ford, model F-150, trim XLT and bed *)
(* 5.5 ft.  The extractIntent of the repository answers with the keys      *)
(* vehicle, type and brand, so the merge reads nothing and this fails.     *)
(***************************************************************************)
\* the turns that have arrived, answered or in flight, with the profile
\* each found and the profile its merge left
Arrived ==
  {[msg |-> res[id].msg, before |-> res[id].before, vehicle |-> res[id].vehicle]
     : id \in DOMAIN res}
  \cup {[msg |-> p.msg, before |-> p.before, vehicle |-> p.vehicle] : p \in pending}

\* the messages of the model that name a year, a make and a model
NamesTrio == {"tacoma", "f150", "xlt"}

ScenarioProfile ==
  [year |-> "2020", make |-> "Ford", model |-> "F-150", trim |-> "XLT",
   bed |-> "5.5 ft", engine |-> NULL]

C20_ExtractionFillsProfile ==
  \A t \in Arrived :
    /\ t.msg \in NamesTrio => TrioKnown(t.vehicle)
    /\ (t.msg = "xlt" /\ t.before = EmptyVehicle) => t.vehicle = ScenarioProfile

(***************************************************************************)
(* C21.  In the handler of part_004 every fitment question, of either      *)
(* kind, records the clock in lastFitmentAskAt, and an affirmation is      *)
(* answered with the affirmation question only when more than COOLDOWN_MS  *)
(* have passed since the time recorded: two affirmation questions of one   *)
(* session are more than COOLDOWN_MS apart, and an affirmation inside the  *)
(* window goes on to the next rule of the gate.                            *)
(***************************************************************************)
\* the time of the last fitment question the session has recorded; 0 for a
\* session that has recorded none or does not exist yet
LastAskAt(M, sid) == IF sid \in DOMAIN M THEN M[sid].flags.lastFitmentAskAt ELSE 0

AnsweredNow == DOMAIN res' \ DOMAIN res

C21_AffirmationAsksApart ==
  [][impl = "cooldown" =>
       \A id \in AnsweredNow :
         LET sid == res'[id].sid
         IN  /\ res'[id].reply.kind \in AskKinds => LastAskAt(SESSIONS', sid) = now
             /\ res'[id].reply.kind = "ask_yes" =>
                  now - LastAskAt(SESSIONS, sid) > COOLDOWN_MS]_vars

\* one session was asked the affirmation question twice
C21_AskedAgainAfterWindow ==
  /\ impl = "cooldown"
  /\ \E a, b \in DOMAIN res :
       /\ a < b
       /\ res[a].sid = res[b].sid
       /\ res[a].reply.kind = "ask_yes"
       /\ res[b].reply.kind = "ask_yes"

(***************************************************************************)
(* C22.  In the handler of part_004 a buying-intent message that arrives   *)
(* within COOLDOWN_MS of an affirmation question of its session is not     *)
(* answered with the buying-intent question.  The buying-intent rule tests *)
(* askedFitmentOnce alone, which the affirmation question leaves unset, so *)
(* this fails.                                                             *)
(***************************************************************************)
AskedYesBefore(sid) ==
  \E a \in DOMAIN res : res[a].sid = sid /\ res[a].reply.kind = "ask_yes"

C22_NoBuyAskInsideWindow ==
  [][impl = "cooldown" =>
       \A id \in AnsweredNow :
         (/\ res'[id].reply.kind = "ask_buy"
          /\ AskedYesBefore(res'[id].sid))
           => now - LastAskAt(SESSIONS, res'[id].sid) > COOLDOWN_MS]_vars

(***************************************************************************)
(* C23.  The how-to upsell is offered at most once per session, under any  *)
(* interleaving of the turns of the session: no two replies of one session *)
(* carry the offer, offeredUpsellAfterHowTo is set exactly when a reply of *)
(* the session has carried it, and once set it stays set.                  *)
(***************************************************************************)
UpsellReplies(sid) ==
  {id \in DOMAIN res : res[id].sid = sid /\ res[id].reply.upsell}

C23_UpsellAtMostOnce ==
  /\ [](\A sid \in DOMAIN SESSIONS :
          /\ Cardinality(UpsellReplies(sid)) <= 1
          /\ SESSIONS[sid].flags.offeredUpsellAfterHowTo = (UpsellReplies(sid) # {}))
  /\ [][\A sid \in DOMAIN SESSIONS :
          SESSIONS[sid].flags.offeredUpsellAfterHowTo
            => SESSIONS'[sid].flags.offeredUpsellAfterHowTo]_vars

\* two how-to turns of one session overlapped: the one that arrived later
\* was answered first and carries the offer, the earlier one does not
C23_LaterTurnTookTheOffer ==
  \E a, b \in DOMAIN res :
    /\ a < b
    /\ res[a].sid = res[b].sid
    /\ res[a].reply.kind = "answer" /\ looksLikeHowTo(Messages[res[a].msg].words)
    /\ res[b].reply.kind = "answer" /\ looksLikeHowTo(Messages[res[b].msg].words)
    /\ res[b].reply.upsell
    /\ ~res[a].reply.upsell

(***************************************************************************)
(* C24.  When the merged profile lacks exactly one of year, make and       *)
(* model, a buying-intent message that is not an affirmation is not        *)
(* answered with a fitment question: the turn goes to the model.           *)
(***************************************************************************)
\* the turns that have arrived, answered or in flight, each with its id
ArrivedIds == DOMAIN res \cup InFlightIds

TurnOf(id) ==
  IF id \in DOMAIN res
    THEN [msg |-> res[id].msg, vehicle |-> res[id].vehicle,
          asked |-> res[id].asked, kind |-> res[id].reply.kind]
  ELSE LET p == CHOOSE q \in pending : q.id = id
       IN  [msg |-> p.msg, vehicle |-> p.vehicle, asked |-> p.asked,
            kind |-> "in flight"]

BuyingWithOneMissing(id) ==
  LET t == TurnOf(id)
  IN  /\ Len(NullCore(t.vehicle)) = 1
      /\ wantsProductsOf(impl, Messages[t.msg].words)
      /\ ~saidYesOf(impl, Messages[t.msg].words)

C24_OneMissingProceeds ==
  \A id \in ArrivedIds :
    BuyingWithOneMissing(id) => TurnOf(id).kind \notin AskKinds

\* such a turn, in a session that had not set askedFitmentOnce, was sent to
\* the model
C24_OneMissingSentToModel ==
  \E id \in ArrivedIds :
    /\ BuyingWithOneMissing(id)
    /\ ~TurnOf(id).asked
    /\ TurnOf(id).kind \in {"in flight", "answer"}

(***************************************************************************)
(* C25.  A turn whose model call fails is not undone: the step that sends  *)
(* the fallback leaves the store as the turn's arrival (and the turns      *)
(* since) left it, with the user message in the history, no assistant turn *)
(* added, and every profile field the turn's merge filled still filled; so *)
(* the history can hold two user turns in a row.                           *)
(***************************************************************************)
C25_FailedTurnKept ==
  [][\A id \in AnsweredNow :
       res'[id].reply.kind = "fallback" =>
         LET sid == res'[id].sid
         IN  /\ SESSIONS' = SESSIONS
             /\ UserTurn(res'[id].msg) \in Range(SESSIONS'[sid].history)
             /\ \A f \in Fields :
                  res'[id].vehicle[f] # NULL => SESSIONS'[sid].vehicle[f] # NULL]_vars

\* no turn is in flight, a turn got the fallback, and its user message is
\* followed in the history by the user message of the next turn
C25_TwoUserTurnsInARow ==
  /\ pending = {}
  /\ \E a \in DOMAIN res :
       /\ res[a].reply.kind = "fallback"
       /\ a + 1 \in DOMAIN res
       /\ LET h == SESSIONS[res[a].sid].history
          IN  \E k \in DOMAIN h :
                /\ k + 1 \in DOMAIN h
                /\ h[k] = UserTurn(res[a].msg)
                /\ h[k + 1] = UserTurn(res[a + 1].msg)

(***************************************************************************)
(* C26.  For turns of one session that overlap, each user message is       *)
(* appended to the history when its request arrives and each reply when    *)
(* its model call completes: the history a model call is started with ends *)
(* in the turn's user message and holds the user messages of the turns     *)
(* still in flight, whose replies are not in it yet, and a reply goes to   *)
(* the end of the history as it then is.  So the history can end as        *)
(* user1, user2, reply2, reply1.                                           *)
(***************************************************************************)
HistoryOf(M, sid) == IF sid \in DOMAIN M THEN M[sid].history ELSE <<>>

AssistantTurns(h) == SelectSeq(h, LAMBDA t : t.role = "assistant")

C26_AppendedOnArrivalAndCompletion ==
  [][/\ \A p \in pending' \ pending :
          /\ HistoryOf(SESSIONS', p.sid)
               = Append(HistoryOf(SESSIONS, p.sid), UserTurn(p.msg))
          /\ \A q \in pending :
               q.sid = p.sid =>
                 /\ UserTurn(q.msg) \in Range(HistoryOf(SESSIONS', p.sid))
                 /\ Len(AssistantTurns(HistoryOf(SESSIONS', p.sid)))
                      = Cardinality({a \in DOMAIN res :
                                       /\ res[a].sid = p.sid
                                       /\ res[a].reply.kind # "fallback"})
     /\ \A id \in AnsweredNow :
          res'[id].reply.kind = "answer" =>
            HistoryOf(SESSIONS', res'[id].sid)
              = Append(HistoryOf(SESSIONS, res'[id].sid), res'[id].reply)]_vars

\* the history of a session is user1, user2, reply2, reply1
C26_RepliesOutOfOrder ==
  \E a, b \in DOMAIN res :
    /\ a < b
    /\ res[a].sid = res[b].sid
    /\ res[a].msg # res[b].msg
    /\ res[a].reply.kind = "answer"
    /\ res[b].reply.kind = "answer"
    /\ SESSIONS[res[a].sid].history
         = <<UserTurn(res[a].msg), UserTurn(res[b].msg), res[b].reply, res[a].reply>>

(***************************************************************************)
(* C27.  Two requests use one session exactly when the identifiers they    *)
(* send agree on their first SESSION_ID_LEN characters, a request without  *)
(* an identifier counting as one that sends "visitor": the user turns in   *)
(* the history of a request's session are the messages of the requests     *)
(* with such an identifier, in the order of their arrival, and requests    *)
(* whose identifiers differ inside that prefix use different sessions.     *)
(***************************************************************************)
SessionSent(id) ==
  IF id \in DOMAIN res THEN res[id].session
  ELSE (CHOOSE p \in pending : p.id = id).session

MessageSent(id) ==
  IF id \in DOMAIN res THEN res[id].msg
  ELSE (CHOOSE p \in pending : p.id = id).msg

NoIdentifier(x) == x = None \/ x = <<>>

\* x and y agree on their first SESSION_ID_LEN characters
SamePrefix(x, y) ==
  LET a == IF NoIdentifier(x) THEN VISITOR ELSE x
      b == IF NoIdentifier(y) THEN VISITOR ELSE y
  IN  slice(a, SESSION_ID_LEN) = slice(b, SESSION_ID_LEN)

Mates(a) == {b \in ArrivedIds : SamePrefix(SessionSent(a), SessionSent(b))}

UserTurns(h) == SelectSeq(h, LAMBDA t : t.role = "user")

C27_SessionPerPrefix ==
  \A a \in ArrivedIds :
    LET users == UserTurns(SESSIONS[SidOf(a)].history)
    IN  /\ Len(users) = Cardinality(Mates(a))
        /\ \A b \in Mates(a) :
             users[Cardinality({c \in Mates(a) : c <= b})] = UserTurn(MessageSent(b))
        /\ \A b \in ArrivedIds : (SidOf(a) = SidOf(b)) = (b \in Mates(a))

\* two requests sent different identifiers, each longer than SESSION_ID_LEN,
\* and one session holds the turns of both
C27_LongIdentifiersShare ==
  \E a, b \in ArrivedIds :
    /\ a < b
    /\ SessionSent(a) # SessionSent(b)
    /\ ~NoIdentifier(SessionSent(a)) /\ Len(SessionSent(a)) > SESSION_ID_LEN
    /\ ~NoIdentifier(SessionSent(b)) /\ Len(SessionSent(b)) > SESSION_ID_LEN
    /\ SidOf(a) = SidOf(b)
    /\ Len(UserTurns(SESSIONS[SidOf(a)].history)) = 2

(***************************************************************************)
(* C28.  Across the turns of a session a profile field that is non-null    *)
(* never becomes null again, so the number of missing core fields never    *)
(* goes up from one step to the next.                                      *)
(***************************************************************************)
C28_ProfileOnlyGains ==
  [][\A sid \in DOMAIN SESSIONS :
       /\ \A f \in Fields :
            SESSIONS[sid].vehicle[f] # NULL => SESSIONS'[sid].vehicle[f] # NULL
       /\ Len(NullCore(SESSIONS'[sid].vehicle)) <= Len(NullCore(SESSIONS[sid].vehicle))]_vars

\* a turn found a field filled, its message does not name that field, and
\* the field is still filled
C28_UnnamedFieldKept ==
  \E id \in ArrivedIds : \E f \in Fields :
    LET t == IF id \in DOMAIN res THEN res[id] ELSE CHOOSE p \in pending : p.id = id
    IN  /\ t.before[f] # NULL
        /\ fieldOf(extractIntent[extractor][t.msg], f) = NULL
        /\ SESSIONS[t.sid].vehicle[f] # NULL

(***************************************************************************)
(* C29.  A turn that passes the validation of its message and ends without *)
(* an exception, in a question or in the formatted answer, saves what it   *)
(* returns: the reply sent to the caller is the assistant turn the handler *)
(* appends to the history, the turn appends one user turn and one          *)
(* assistant turn and the user turn first.  The histories of this          *)
(* specification stay below MAX_TURNS, so every turn appended is still in  *)
(* them: a session's history holds one user turn for each of its requests  *)
(* that arrived, one assistant turn for each reply sent that is not the    *)
(* reply of the catch block, each reply as often as it was sent, and a     *)
(* turn answered on arrival adds its message and then its reply.           *)
(***************************************************************************)
SavedReplies == {"ask_yes", "ask_buy", "answer"}

\* the number of places of h that hold turn
TimesIn(h, turn) == Cardinality({k \in DOMAIN h : h[k] = turn})

ReturnsWhatItSaved(sid) ==
  LET h    == HistoryOf(SESSIONS, sid)
      sent == {id \in DOMAIN res : res[id].sid = sid /\ res[id].reply.kind \in SavedReplies}
      came == {id \in DOMAIN res : res[id].sid = sid}
                \cup {p.id : p \in {q \in pending : q.sid = sid}}
  IN  /\ Len(UserTurns(h)) = Cardinality(came)
      /\ Len(AssistantTurns(h)) = Cardinality(sent)
      /\ \A id \in sent :
           /\ res[id].reply.role = "assistant"
           /\ TimesIn(h, res[id].reply)
                = Cardinality({a \in sent : res[a].reply = res[id].reply})
           /\ \E j, k \in DOMAIN h :
                j < k /\ h[j] = UserTurn(res[id].msg) /\ h[k] = res[id].reply

C29_ReplyIsTheSavedTurn ==
  /\ [](\A sid \in DOMAIN SESSIONS : ReturnsWhatItSaved(sid))
  /\ [][\A id \in AnsweredNow :
          LET t == res'[id]
              h == HistoryOf(SESSIONS, t.sid)
          IN  t.reply.kind \in SavedReplies =>
                HistoryOf(SESSIONS', t.sid)
                  = IF ArrivesNow(id)
                      THEN h \o <<UserTurn(t.msg), t.reply>>
                      ELSE Append(h, t.reply)]_vars

\* a question and an answer that carries the upsell line have both been
\* returned and are in the history of their session
C29_AskAndUpsellReturned ==
  \E a, b \in DOMAIN res :
    /\ res[a].sid = res[b].sid
    /\ res[a].reply.kind \in {"ask_yes", "ask_buy"}
    /\ res[b].reply.kind = "answer"
    /\ res[b].reply.upsell
    /\ res[a].reply \in Range(SESSIONS[res[a].sid].history)
    /\ res[b].reply \in Range(SESSIONS[res[b].sid].history)

(***************************************************************************)
(* C30.  A text that holds the token __A0__ in its own words, outside any  *)
(* anchor, comes out of the injector that protects anchors with that token *)
(* where it was: the result holds __A0__ as often as the text did and does *)
(* not hold "undefined".                                                   *)
(***************************************************************************)
OwnPlaceholder == PLACEHOLDERS[1]

C30_PlaceholderTextKept ==
  (phase # "input" /\ protects(impl)) =>
    /\ TimesIn(linked, OwnPlaceholder) = TimesIn(replyText, OwnPlaceholder)
    /\ "undefined" \notin Range(linked)

====
